---- MODULE Spec2Model ----
(***************************************************************************)
(* A model of the Lotus TCG marketplace: catalog stock, user inventories,  *)
(* consignment records, the cart, checkout, the order lifecycle, coupons   *)
(* and the store-credit ledger.  Every HTTP handler is one atomic action   *)
(* (one request, one worker, one transaction); the credit-issuance calls   *)
(* are split where their interleaving is the subject.                      *)
(***************************************************************************)
EXTENDS Integers, Sequences, FiniteSets, TLC

VARIABLES
    card_quantity,     \* Card.quantity per card id
    inventory_items,   \* InventoryItem rows, index = primary key
    shop_items,        \* ShopInventoryItem rows, index = primary key = creation order
    cart_items,        \* CartItem rows of the buyer's cart session, in primary-key order
    orders,            \* Order rows with their OrderItem rows, in creation order
    coupons,           \* Coupon rows per coupon id
    session,           \* the buyer's signed-cookie session (staged coupon and credit plan)
    credit_ledger,     \* CreditLedger rows, index = primary key
    issue_calls,       \* in-flight POST /admin/credit/issue requests
    response,          \* what the most recent request answered (flash or JSON)
    users,             \* User rows per username
    verification_audit_log, \* VerificationAuditLog rows, index = primary key
    transfer_logs,     \* InventoryTransferLog rows, index = primary key
    catalog,           \* Card rows as the CSV import sees them, in primary-key order
    login_session,     \* the user flask-login holds for the browser, or NoUser
    now,               \* datetime.utcnow(), in days
    COUNTERS,          \* the process-wide _Counter: its lock and its values
    inc_calls,         \* the threads inside _Counter.inc
    checkout_calls,    \* POST /checkout requests of several browsers, in flight
    request            \* flask.request of a login, and the redirect target computed for it

(* The tables and the environment the shop handlers above do not write *)
workers == <<COUNTERS, inc_calls, checkout_calls, request>>

accounts == <<users, verification_audit_log, transfer_logs, catalog, login_session, now,
              workers>>

vars == <<card_quantity, inventory_items, shop_items, cart_items, orders,
          coupons, session, credit_ledger, issue_calls, response, accounts>>

db == <<card_quantity, inventory_items, shop_items, cart_items, orders,
        coupons, credit_ledger>>

-----------------------------------------------------------------------------
(* Bounds of the model *)

MaxOrders == 1          \* rows the orders table may hold
MaxItems == 2           \* rows the inventory_items table may hold
MaxLines == 2           \* rows the buyer's cart may hold
MaxQty == 2             \* largest quantity a request or an initial stock uses
MaxRedemptions == 2     \* orders placed where store credit is redeemed
MaxEntries == 2         \* entries of one inventory-withdrawal request
MaxCalls == 3           \* concurrent credit-issue requests
MaxTransfers == 2       \* rows the inventory_transfer_logs table may hold

(* Nullable foreign keys hold Null *)
Null == 0

Users == {"alice", "bob"}
Buyer == "bob"
NoUser == "none"

(* Card 1 is a trading card; cards 2, 3 and 4 are the canonical CREDIT cards *)
(* of the three denominations.                                               *)
TradeCard == 1
CreditCard10k == 2
CreditCard1k == 3
CreditCard100k == 4
Cards == {TradeCard, CreditCard10k, CreditCard1k, CreditCard100k}
CreditCards == {CreditCard10k, CreditCard1k, CreditCard100k}
(* The denominations smallest first *)
DenominationsAscending == <<1000, 10000, 100000>>

(* NEW_DENOMS, in greedy order *)
Denominations == <<100000, 10000, 1000>>

is_credit(c) == c \in CreditCards

price(c) ==
    IF c = CreditCard10k THEN 10000
    ELSE IF c = CreditCard1k THEN 1000
    ELSE IF c = CreditCard100k THEN 100000
    ELSE 11000

Coupons == {1}
discount_percentage(k) == 50

-----------------------------------------------------------------------------
(* Generic helpers *)

Min(a, b) == IF a < b THEN a ELSE b
Max(a, b) == IF a > b THEN a ELSE b

RECURSIVE SumSeq(_)
SumSeq(s) == IF s = <<>> THEN 0 ELSE Head(s) + SumSeq(Tail(s))

IsPrefix(p, s) == Len(p) <= Len(s) /\ SubSeq(s, 1, Len(p)) = p

(* query.filter(...).first(): the row with the lowest primary key *)
First(S) == IF S = {} THEN Null ELSE CHOOSE i \in S : \A j \in S : i <= j

-----------------------------------------------------------------------------
(* Rows *)

InventoryItem(u, c, q, status) ==
    [user_id |-> u, card_id |-> c, quantity |-> q,
     verification_status |-> status, is_verified |-> (status = "verified"),
     live |-> TRUE]

ShopInventoryItem(c, u, src, q) ==
    [card_id |-> c, from_user_id |-> u, source_inventory_item_id |-> src,
     quantity |-> q]

(* source is not a column: it records which branch of a handler wrote the *)
(* line ("shop", "consignment", "user" or "withdrawal"); no handler reads it *)
OrderItem(c, q, inv, seller, source) ==
    [card_id |-> c, quantity |-> q, inventory_item_id |-> inv,
     seller_user_id |-> seller, source |-> source]

ItemIds == DOMAIN inventory_items
ShopIds == DOMAIN shop_items
OrderIdx == DOMAIN orders

Live(i) == i \in ItemIds /\ inventory_items[i].live

(* ShopInventoryItem.query.filter_by(card_id, from_user_id, source_inventory_item_id).first() *)
shop_row_for(c, u, src) ==
    First({r \in ShopIds : /\ shop_items[r].card_id = c
                           /\ shop_items[r].from_user_id = u
                           /\ shop_items[r].source_inventory_item_id = src})

-----------------------------------------------------------------------------
(* Accounts *)

Admins == {"admin", "root"}
Accounts == Users \cup Admins

(* werkzeug's salted hash of a password, and its check *)
generate_password_hash(password) == <<"pbkdf2", password>>
check_password_hash(pwhash, password) == pwhash = <<"pbkdf2", password>>

(* A nullable datetime is <<>> for NULL and <<t>> for the time t *)
User(role) ==
    [role |-> role, account_status |-> "active", suspension_expires |-> <<>>,
     password_hash |-> generate_password_hash("pw0"), email |-> "e0"]

MaxThreads == 3         \* threads inside _Counter.inc at once

(* The worker threads of the process and the browsers of the race *)
Threads == 1..MaxThreads
Browsers == {"b1", "b2"}

(* _Counter.__init__ (src/metrics.py): an unlocked lock and no values *)
_Counter == [_lock |-> FALSE, _values |-> [name \in {} |-> 0]]

NoCall == [pc |-> "idle", name |-> "", amount |-> 0, value |-> 0]
NoCheckout == [pc |-> "idle", quantity |-> 0, loaded |-> 0, applied_coupon_id |-> Null]
NoRequest == [next |-> <<>>, referrer |-> <<>>, called |-> FALSE, target |-> <<>>]

is_admin(u) == users[u].role \in {"admin", "super_admin"}
is_super_admin(u) == users[u].role = "super_admin"
is_active(u) == users[u].account_status = "active"

(* No thread is inside _Counter.inc and no checkout is in flight *)
InitWorkers ==
    /\ COUNTERS = _Counter
    /\ inc_calls = [t \in Threads |-> NoCall]
    /\ checkout_calls = [b \in Browsers |-> NoCheckout]
    /\ request = NoRequest

(* The accounts: two users, an admin and a super admin, all active *)
InitAccounts ==
    /\ users = [a \in Accounts |->
                  User(IF a = "root" THEN "super_admin"
                       ELSE IF a = "admin" THEN "admin" ELSE "user")]
    /\ verification_audit_log = <<>>
    /\ transfer_logs = <<>>
    /\ catalog = <<>>
    /\ login_session = NoUser
    /\ now = 0
    /\ InitWorkers

-----------------------------------------------------------------------------
(* POST /api/inventory/item/<id>/list with listed = true *)

qty_to_move(item, qty_req) ==
    Max(1, Min(item.quantity, IF qty_req = Null THEN item.quantity ELSE qty_req))

(* The consignment record of a source item among rows *)
shop_row_in(rows, c, u, src) ==
    First({r \in DOMAIN rows : /\ rows[r].card_id = c
                               /\ rows[r].from_user_id = u
                               /\ rows[r].source_inventory_item_id = src})

(* The listing branch: the three tables as it leaves them *)
list_item(cq, items, rows, i, qty_req) ==
    LET item == items[i]
        moved == qty_to_move(item, qty_req)
        left == item.quantity - moved
        partial == left > 0
        decremented == [items EXCEPT ![i].quantity = left]
        duplicate_item == [item EXCEPT !.quantity = moved]
        existing == shop_row_in(rows, item.card_id, item.user_id, i)
        with_row == IF existing = Null
                    THEN Append(rows, ShopInventoryItem(item.card_id, item.user_id, i, 0))
                    ELSE rows
        r == IF existing = Null THEN Len(rows) + 1 ELSE existing
    IN  [card_quantity |-> [cq EXCEPT ![item.card_id] = @ + moved],
         inventory_items |-> IF partial THEN Append(decremented, duplicate_item)
                                        ELSE decremented,
         shop_items |-> [with_row EXCEPT ![r].quantity = @ + moved]]

(* The listing branch's validations *)
can_list(items, u, i) ==
    /\ i \in DOMAIN items
    /\ items[i].live
    /\ items[i].user_id = u
    /\ ~is_credit(items[i].card_id)
    /\ items[i].is_verified
    /\ items[i].quantity > 0

(* POST /api/inventory/item/<id>/list with listed = true *)
api_list_inventory_item(u, i, qty_req) ==
    /\ can_list(inventory_items, u, i)
    /\ LET res == list_item(card_quantity, inventory_items, shop_items, i, qty_req)
       IN  /\ inventory_items' = res.inventory_items
           /\ shop_items' = res.shop_items
           /\ card_quantity' = res.card_quantity
    /\ response' = "ok"
    /\ UNCHANGED <<cart_items, orders, coupons, session, credit_ledger, issue_calls, accounts>>

(* An unlisting that leaves the card's shop quantity as it is *)
unlist_item_keeping_stock(cq, items, rows, i) ==
    LET item == items[i]
        r == shop_row_in(rows, item.card_id, item.user_id, i)
        moved_back == rows[r].quantity
    IN  [card_quantity |-> cq,
         inventory_items |-> [items EXCEPT ![i].quantity = @ + moved_back],
         shop_items |-> [rows EXCEPT ![r].quantity = 0]]

(* The unlisting branch: the three tables as it leaves them *)
unlist_item(cq, items, rows, i) ==
    LET item == items[i]
        r == shop_row_in(rows, item.card_id, item.user_id, i)
        moved_back == rows[r].quantity
    IN  [card_quantity |-> [cq EXCEPT ![item.card_id] = Max(0, @ - moved_back)],
         inventory_items |-> [items EXCEPT ![i].quantity = @ + moved_back],
         shop_items |-> [rows EXCEPT ![r].quantity = 0]]

(* The unlisting moves units: the item is the user's and its record holds some *)
can_unlist(items, rows, u, i) ==
    /\ i \in DOMAIN items
    /\ items[i].live
    /\ items[i].user_id = u
    /\ LET r == shop_row_in(rows, items[i].card_id, u, i)
       IN  r # Null /\ rows[r].quantity > 0

(* POST /api/inventory/item/<id>/list with listed = false *)
api_unlist_inventory_item(u, i) ==
    /\ can_unlist(inventory_items, shop_items, u, i)
    /\ LET res == unlist_item(card_quantity, inventory_items, shop_items, i)
       IN  /\ card_quantity' = res.card_quantity
           /\ inventory_items' = res.inventory_items
           /\ shop_items' = res.shop_items
    /\ response' = "ok"
    /\ UNCHANGED <<cart_items, orders, coupons, session, credit_ledger, issue_calls, accounts>>

(* POST /api/inventory/consignment/<shop_item_id>/withdraw *)
api_withdraw_consignment(u, r, qty_req) ==
    /\ qty_req > 0
    /\ r \in ShopIds
    /\ shop_items[r].from_user_id = u
    /\ shop_items[r].quantity > 0
    /\ LET s == shop_items[r]
           qty == Min(qty_req, s.quantity)
           src == s.source_inventory_item_id
           to_source == src # Null /\ Live(src) /\ inventory_items[src].user_id = u
           merge_item == First({i \in ItemIds : /\ inventory_items[i].live
                                                /\ inventory_items[i].user_id = u
                                                /\ inventory_items[i].card_id = s.card_id})
       IN  /\ card_quantity' = [card_quantity EXCEPT ![s.card_id] = Max(0, @ - qty)]
           /\ IF to_source
                THEN inventory_items' = [inventory_items EXCEPT ![src].quantity = @ + qty]
                ELSE IF merge_item # Null
                THEN inventory_items' = [inventory_items EXCEPT ![merge_item].quantity = @ + qty]
                ELSE inventory_items' = Append(inventory_items,
                                               InventoryItem(u, s.card_id, qty, "verified"))
           /\ shop_items' = [shop_items EXCEPT ![r].quantity = @ - qty]
    /\ response' = "ok"
    /\ UNCHANGED <<cart_items, orders, coupons, session, credit_ledger, issue_calls, accounts>>

-----------------------------------------------------------------------------
(* Cart *)

CartItem(c, inv, q) == [card_id |-> c, inventory_item_id |-> inv, quantity |-> q]

item_type(line) ==
    IF line.card_id # Null THEN "admin"
    ELSE IF line.inventory_item_id # Null THEN "user"
    ELSE "none"

available_quantity(line) ==
    IF item_type(line) = "admin" THEN card_quantity[line.card_id]
    ELSE IF item_type(line) = "user" /\ Live(line.inventory_item_id)
    THEN inventory_items[line.inventory_item_id].quantity
    ELSE 0

display_price(line) ==
    IF item_type(line) = "admin" THEN price(line.card_id)
    ELSE IF item_type(line) = "user" /\ Live(line.inventory_item_id)
    THEN price(inventory_items[line.inventory_item_id].card_id)
    ELSE 0

item_total(line) == display_price(line) * line.quantity

cart_total(lines) == SumSeq([k \in DOMAIN lines |-> item_total(lines[k])])

(* _add_to_cart(item_type, item_id, quantity) *)
_add_to_cart(kind, id, quantity) ==
    /\ quantity >= 1
    /\ \/ kind = "admin" /\ id \in Cards /\ card_quantity[id] >= quantity
       \/ /\ kind = "user"
          /\ Live(id)
          /\ inventory_items[id].is_verified
          /\ inventory_items[id].quantity >= quantity
    /\ LET available == IF kind = "admin" THEN card_quantity[id]
                        ELSE inventory_items[id].quantity
           existing == First({k \in DOMAIN cart_items :
                                 IF kind = "admin" THEN cart_items[k].card_id = id
                                 ELSE cart_items[k].inventory_item_id = id})
       IN  cart_items' =
             IF existing # Null
             THEN [cart_items EXCEPT ![existing].quantity = Min(@ + quantity, available)]
             ELSE Append(cart_items,
                         CartItem(IF kind = "admin" THEN id ELSE Null,
                                  IF kind = "user" THEN id ELSE Null,
                                  Min(quantity, available)))
    /\ response' = "ok"
    /\ UNCHANGED <<card_quantity, inventory_items, shop_items, orders, coupons,
                   session, credit_ledger, issue_calls, accounts>>

-----------------------------------------------------------------------------
(* Credit service: apply_credits *)

LedgerRow(u, amount, direction, kind, item, key) ==
    [user_id |-> u, amount_vnd |-> amount, direction |-> direction, kind |-> kind,
     related_inventory_item_id |-> item, idempotency_key |-> key]

(* An idempotency key is the string scope ":" order id [":" part], kept in *)
(* its three parts; the order id is kept as its prefix and its characters. *)
IdemKey(scope, order_id, part) == [scope |-> scope, order_id |-> order_id, part |-> part]
NoKey == IdemKey("", [kind |-> "", digits |-> <<>>], Null)

(* The user's holding of one CREDIT card: the verified inventory row for it *)
credit_item(items, u, c) ==
    First({i \in DOMAIN items : /\ items[i].live
                                /\ items[i].user_id = u
                                /\ items[i].card_id = c
                                /\ items[i].is_verified})

held_units(items, u, c) ==
    IF credit_item(items, u, c) = Null THEN 0 ELSE items[credit_item(items, u, c)].quantity

(* The canonical card of a denomination, Null while none exists *)
credit_card_of(denom) ==
    First({c \in CreditCards : price(c) = denom})

(* auto mode: greedy over the descending denominations, within the holdings *)
RECURSIVE auto_breakdown(_, _, _, _)
auto_breakdown(items, u, due, k) ==
    IF k > Len(Denominations) THEN <<>>
    ELSE LET denom == Denominations[k]
             c == credit_card_of(denom)
             units == IF c = Null THEN 0
                      ELSE Min(held_units(items, u, c), due \div denom)
         IN  (IF units > 0 THEN <<[card_id |-> c, units |-> units]>> ELSE <<>>)
             \o auto_breakdown(items, u, due - units * denom, k + 1)

breakdown_vnd(breakdown) ==
    SumSeq([k \in DOMAIN breakdown |-> breakdown[k].units * price(breakdown[k].card_id)])

(* manual mode: the breakdown must be held and must not exceed the amount due *)
breakdown_ok(items, u, due, breakdown) ==
    /\ \A k \in DOMAIN breakdown :
          /\ breakdown[k].card_id \in CreditCards
          /\ breakdown[k].units > 0
          /\ held_units(items, u, breakdown[k].card_id) >= breakdown[k].units
    /\ breakdown_vnd(breakdown) <= due

RECURSIVE redeem_items(_, _, _, _)
redeem_items(items, u, breakdown, k) ==
    IF k > Len(breakdown) THEN items
    ELSE LET i == credit_item(items, u, breakdown[k].card_id)
         IN  redeem_items([items EXCEPT ![i].quantity = @ - breakdown[k].units],
                          u, breakdown, k + 1)

redeem_rows(items, u, breakdown, key) ==
    [k \in DOMAIN breakdown |->
        LedgerRow(u, breakdown[k].units * price(breakdown[k].card_id), "debit", "redeem",
                  credit_item(items, u, breakdown[k].card_id),
                  IdemKey(key.scope, key.order_id, breakdown[k].card_id))]

key_seen(ledger, key) ==
    \E r \in DOMAIN ledger :
        /\ ledger[r].idempotency_key.scope = key.scope
        /\ ledger[r].idempotency_key.order_id = key.order_id

(* apply_credits(user, amount_due, mode, breakdown, key, preview): the result *)
(* with the inventory and the ledger as the call leaves them.                *)
apply_credits(items, ledger, u, due, mode, breakdown, key, preview) ==
    LET plan == IF mode = "auto" THEN auto_breakdown(items, u, due, 1) ELSE breakdown
        ok == mode = "auto" \/ breakdown_ok(items, u, due, breakdown)
        replay == ~preview /\ key # NoKey /\ key_seen(ledger, key)
        acts == ok /\ ~preview /\ ~replay
    IN  [ok |-> ok /\ ~replay,
         credits_applied_vnd |-> IF ok THEN breakdown_vnd(plan) ELSE 0,
         remaining_vnd |-> IF ok THEN due - breakdown_vnd(plan) ELSE due,
         applied_breakdown |-> IF ok THEN plan ELSE <<>>,
         items |-> IF acts THEN redeem_items(items, u, plan, 1) ELSE items,
         ledger |-> IF acts THEN ledger \o redeem_rows(items, u, plan, key) ELSE ledger]

NoPlan ==
    [staged |-> FALSE, amount_after_pct |-> 0, applied_vnd |-> 0, remaining_vnd |-> 0,
     breakdown |-> <<>>]

(* POST /checkout/apply-credits: a preview, staged into the session *)
checkout_apply_credits(amount_due_vnd, coupon_pct, mode) ==
    /\ amount_due_vnd >= 0
    /\ coupon_pct # Null => coupon_pct >= 0 /\ coupon_pct <= 100
    /\ LET amount_after_pct ==
               IF coupon_pct = Null THEN amount_due_vnd
               ELSE Max(0, (amount_due_vnd * (100 - coupon_pct)) \div 100)
           res == apply_credits(inventory_items, credit_ledger, Buyer, amount_after_pct,
                                mode, <<>>, NoKey, TRUE)
       IN  /\ res.ok
           /\ session' = [session EXCEPT !.credit =
                              [staged |-> TRUE, amount_after_pct |-> amount_after_pct,
                               applied_vnd |-> res.credits_applied_vnd,
                               remaining_vnd |->
                                   IF res.remaining_vnd # 0 THEN res.remaining_vnd
                                   ELSE amount_after_pct - res.credits_applied_vnd,
                               breakdown |-> res.applied_breakdown]]
    /\ response' = "ok"
    /\ UNCHANGED <<db, issue_calls, accounts>>

-----------------------------------------------------------------------------
(* Order ids *)

(* The random part of an order id, as its characters (a..f are 10..15).  The *)
(* samples keep the true lengths: six digits, or the first eight hex digits  *)
(* of a uuid4.                                                              *)
SixDigits == {<<1, 2, 3, 4, 5, 6>>, <<6, 5, 4, 3, 2, 1>>}
EightHex == {<<1, 2, 3, 4, 5, 6, 10, 11>>}

OrderId(kind, digits) == [kind |-> kind, digits |-> digits]

order_ids == {orders[o].id : o \in OrderIdx}

(* Up to ten six-digit candidates, each checked against the orders table; *)
(* when all ten collide, an unchecked uuid4 prefix.                       *)
_generate_unique_order_id ==
    {OrderId("ORD", d) : d \in {x \in SixDigits : OrderId("ORD", x) \notin order_ids}}
    \cup (IF \E d \in SixDigits : OrderId("ORD", d) \in order_ids
          THEN {OrderId("ORD", h) : h \in EightHex}
          ELSE {})

-----------------------------------------------------------------------------
(* POST /checkout *)

(* discounted_total is <<>> for NULL and <<amount>> when it is set *)
Order(id, u, fb, method, total, discount, discounted_total, items) ==
    [id |-> id, user_id |-> u, facebook_details |-> fb, shipment_method |-> method,
     status |-> "pending", total_amount |-> total, discount_amount |-> discount,
     discounted_total |-> discounted_total, items |-> items]

RECURSIVE Reverse(_)
Reverse(s) == IF s = <<>> THEN <<>> ELSE Append(Reverse(Tail(s)), Head(s))

(* The consignment rows of a card with stock left, newest first *)
cons_rows_newest_first(rows, c) ==
    Reverse(SelectSeq([r \in 1..Len(rows) |-> r],
                      LAMBDA r : rows[r].card_id = c /\ rows[r].quantity > 0))

(* The consignment rows of a card with stock left, oldest first *)
cons_rows(rows, c) ==
    SelectSeq([r \in 1..Len(rows) |-> r],
              LAMBDA r : rows[r].card_id = c /\ rows[r].quantity > 0)

RECURSIVE allocate(_, _, _)
allocate(rows, ids, remaining) ==
    IF ids = <<>> \/ remaining <= 0
    THEN [rows |-> rows, allocations |-> <<>>, remaining |-> remaining]
    ELSE LET r == Head(ids)
             take == Min(rows[r].quantity, remaining)
             rest == allocate([rows EXCEPT ![r].quantity = @ - take],
                              Tail(ids), remaining - take)
         IN  [rest EXCEPT !.allocations =
                  <<OrderItem(rows[r].card_id, take,
                              rows[r].source_inventory_item_id,
                              rows[r].from_user_id, "consignment")>> \o @]

(* One cart line: its order lines and its stock deduction *)
place_line(st, line) ==
    IF item_type(line) = "user" /\ line.inventory_item_id \in DOMAIN st.items
                                /\ st.items[line.inventory_item_id].live
    THEN LET i == line.inventory_item_id
         IN  [st EXCEPT
                !.order_items = Append(@, OrderItem(st.items[i].card_id, line.quantity,
                                                    i, st.items[i].user_id, "user")),
                !.items = [@ EXCEPT ![i].quantity = @ - line.quantity]]
    ELSE LET c == line.card_id
             a == allocate(st.rows, cons_rows(st.rows, c), line.quantity)
             store == IF a.remaining > 0
                      THEN <<OrderItem(c, a.remaining, Null, NoUser, "shop")>>
                      ELSE <<>>
         IN  [st EXCEPT
                !.order_items = @ \o a.allocations \o store,
                !.rows = a.rows,
                !.cards = [@ EXCEPT ![c] = @ - line.quantity]]

RECURSIVE place_lines(_, _)
place_lines(st, lines) ==
    IF lines = <<>> THEN st
    ELSE place_lines(place_line(st, Head(lines)), Tail(lines))

Abs(n) == IF n < 0 THEN -n ELSE n

(* failAt: "none"; "order" (an exception before the first commit: rollback); *)
(* "clear" (an exception while the cart rows are deleted, after the order   *)
(* and the stock were committed).  A primary-key collision or a negative    *)
(* inventory quantity (CHECK quantity >= 0) fails the first commit as well. *)
(* "create" is an exception while the order is built or committed, after    *)
(* apply_credits has redeemed the staged plan: the redemption, which the    *)
(* service committed, stays, and the rollback undoes the rest.              *)
checkout(order_id, shipment_method, failAt) ==
    /\ cart_items # <<>>
    /\ \A k \in DOMAIN cart_items :
          cart_items[k].quantity <= available_quantity(cart_items[k])
    /\ order_id \in _generate_unique_order_id
    /\ LET total_amount == cart_total(cart_items)
           coupon_id == session.applied_coupon_id
           applied_coupon == /\ coupon_id # Null
                             /\ coupon_id \in DOMAIN coupons
                             /\ coupons[coupon_id].is_active
           discount_amount == IF applied_coupon
                              THEN (total_amount * discount_percentage(coupon_id)) \div 100
                              ELSE 0
           after_coupon == total_amount - discount_amount
           plan == session.credit
           redeems == /\ plan.staged
                      /\ Abs(plan.amount_after_pct - after_coupon) <= 1
           res == apply_credits(inventory_items, credit_ledger, Buyer, after_coupon,
                                "manual", plan.breakdown,
                                IdemKey("order", order_id, Null), FALSE)
           redeemed == redeems /\ res.ok
           final_total == IF redeemed THEN res.remaining_vnd ELSE after_coupon
           st == place_lines([cards |-> card_quantity,
                              items |-> IF redeemed THEN res.items ELSE inventory_items,
                              rows |-> shop_items,
                              order_items |-> <<>>],
                             cart_items)
           order == Order(order_id, Buyer, <<>>, shipment_method, final_total,
                          discount_amount,
                          IF applied_coupon THEN <<final_total>> ELSE <<>>,
                          st.order_items)
           violates == \/ order_id \in order_ids
                       \/ \E i \in DOMAIN st.items : st.items[i].quantity < 0
       IN  IF failAt = "order" \/ violates \/ (failAt = "create" /\ ~redeemed)
           THEN /\ response' = "checkout_error"
                /\ UNCHANGED <<db, session, issue_calls, accounts>>
           ELSE IF failAt = "create"
           THEN /\ response' = "checkout_error"
                /\ inventory_items' = res.items
                /\ credit_ledger' = res.ledger
                /\ UNCHANGED <<card_quantity, shop_items, cart_items, orders, coupons,
                               session, issue_calls, accounts>>
           ELSE /\ response' = IF failAt = "clear" THEN "checkout_error" ELSE "order_placed"
                /\ orders' = Append(orders, order)
                /\ card_quantity' = st.cards
                /\ inventory_items' = st.items
                /\ shop_items' = st.rows
                /\ coupons' = IF applied_coupon
                              THEN [coupons EXCEPT ![coupon_id].usage_count = @ + 1]
                              ELSE coupons
                /\ credit_ledger' = IF redeemed THEN res.ledger ELSE credit_ledger
                /\ IF failAt = "clear"
                   THEN UNCHANGED <<cart_items, session>>
                   ELSE /\ cart_items' = <<>>
                        /\ session' = [applied_coupon_id |-> Null, credit |-> NoPlan]
                /\ UNCHANGED <<issue_calls, accounts>>

-----------------------------------------------------------------------------
(* Admin order handlers *)

(* InventoryItem.query.filter_by(inventory_id, card_id).first() *)
item_of(items, u, c) ==
    First({i \in DOMAIN items : /\ items[i].live
                                /\ items[i].user_id = u
                                /\ items[i].card_id = c})

RECURSIVE grant_items(_, _, _)
grant_items(items, u, lines) ==
    IF lines = <<>> THEN items
    ELSE LET oi == Head(lines)
             existing == item_of(items, u, oi.card_id)
             granted ==
                 IF existing # Null
                 THEN [items EXCEPT ![existing].quantity = @ + oi.quantity,
                                    ![existing].is_verified = TRUE,
                                    ![existing].verification_status = "verified"]
                 ELSE Append(items, InventoryItem(u, oi.card_id, oi.quantity, "verified"))
         IN  grant_items(granted, u, Tail(lines))

(* POST /admin/orders/<order_id>/fulfill *)
admin_fulfill_order(o) ==
    /\ o \in OrderIdx
    /\ orders[o].status = "pending"
    /\ LET granted == IF orders[o].shipment_method = "inventory"
                      THEN grant_items(inventory_items, orders[o].user_id, orders[o].items)
                      ELSE inventory_items
       IN  inventory_items' = granted
    /\ orders' = [orders EXCEPT ![o].status = "confirmed"]
    /\ response' = "ok"
    /\ UNCHANGED <<card_quantity, shop_items, cart_items, coupons, session,
                   credit_ledger, issue_calls, accounts>>

(* POST /admin/orders/<order_id>/ship *)
admin_ship_order(o) ==
    /\ o \in OrderIdx
    /\ orders[o].status \in {"pending", "confirmed"}
    /\ orders' = [orders EXCEPT ![o].status = "shipped"]
    /\ response' = "ok"
    /\ UNCHANGED <<card_quantity, inventory_items, shop_items, cart_items, coupons,
                   session, credit_ledger, issue_calls, accounts>>

(* Order.query.filter_by(facebook_details='withdrawal:<request_id>') *)
(*      .order_by(Order.created_at.desc()).first()                   *)
withdrawal_marker(request_id) == <<"withdrawal:", request_id>>

withdrawal_order(request_id) ==
    LET found == {o \in OrderIdx : orders[o].facebook_details = withdrawal_marker(request_id)}
    IN  IF found = {} THEN Null ELSE CHOOSE o \in found : \A p \in found : p <= o

(* POST /admin/withdrawals/<request_id>/approve *)
admin_withdraw_approve(request_id) ==
    /\ withdrawal_order(request_id) # Null
    /\ orders' = [orders EXCEPT ![withdrawal_order(request_id)].status = "confirmed"]
    /\ response' = "ok"
    /\ UNCHANGED <<card_quantity, inventory_items, shop_items, cart_items, coupons,
                   session, credit_ledger, issue_calls, accounts>>

(* POST /admin/withdrawals/<request_id>/reject *)
admin_withdraw_reject(request_id) ==
    /\ withdrawal_order(request_id) # Null
    /\ orders' = [orders EXCEPT ![withdrawal_order(request_id)].status = "rejected"]
    /\ response' = "ok"
    /\ UNCHANGED <<card_quantity, inventory_items, shop_items, cart_items, coupons,
                   session, credit_ledger, issue_calls, accounts>>

-----------------------------------------------------------------------------
(* POST /admin/orders/<order_id>/reject *)

(* A restoration that returns a consigned line to its record only *)
restore_line_record_only(st, oi) ==
    IF oi.inventory_item_id # Null /\ oi.seller_user_id # NoUser
    THEN LET r == First({x \in DOMAIN st.rows :
                            /\ st.rows[x].card_id = oi.card_id
                            /\ st.rows[x].from_user_id = oi.seller_user_id
                            /\ st.rows[x].source_inventory_item_id = oi.inventory_item_id})
         IN  IF r # Null
             THEN [st EXCEPT !.rows = [@ EXCEPT ![r].quantity = @ + oi.quantity]]
             ELSE st
    ELSE [st EXCEPT !.cards = [@ EXCEPT ![oi.card_id] = @ + oi.quantity]]

(* The stock one order line gives back, on the uncommitted state st *)
restore_line(st, oi) ==
    IF oi.inventory_item_id # Null /\ oi.seller_user_id # NoUser
    THEN LET r == First({x \in DOMAIN st.rows :
                            /\ st.rows[x].card_id = oi.card_id
                            /\ st.rows[x].from_user_id = oi.seller_user_id
                            /\ st.rows[x].source_inventory_item_id = oi.inventory_item_id})
             i == oi.inventory_item_id
         IN  IF r # Null
             THEN [st EXCEPT !.rows = [@ EXCEPT ![r].quantity = @ + oi.quantity],
                             !.cards = [@ EXCEPT ![oi.card_id] = @ + oi.quantity]]
             ELSE IF i \in DOMAIN st.items /\ st.items[i].live
             THEN [st EXCEPT !.items = [@ EXCEPT ![i].quantity = @ + oi.quantity]]
             ELSE st
    ELSE [st EXCEPT !.cards = [@ EXCEPT ![oi.card_id] = @ + oi.quantity]]

(* CreditLedger.idempotency_key.ilike('order:<order_id>%') *)
ilike_order(key, order_id) ==
    /\ key.scope = "order"
    /\ key.order_id.kind = order_id.kind
    /\ IsPrefix(order_id.digits, key.order_id.digits)

redeem_rows_of(ledger, order_id) ==
    SelectSeq([r \in 1..Len(ledger) |-> r],
              LAMBDA r : /\ ledger[r].kind = "redeem"
                         /\ ledger[r].direction = "debit"
                         /\ ilike_order(ledger[r].idempotency_key, order_id))

(* _safe_add_ledger: the row is added unless its key is already in the ledger *)
_safe_add_ledger(ledger, row) ==
    IF \E r \in DOMAIN ledger : ledger[r].idempotency_key = row.idempotency_key
    THEN ledger
    ELSE Append(ledger, row)

refund_row(st, order_id, r) ==
    LET row == st.ledger[r]
        i == row.related_inventory_item_id
        found == /\ i # Null
                 /\ i \in DOMAIN st.items
                 /\ st.items[i].live
                 /\ st.items[i].user_id = row.user_id
        denom == price(st.items[i].card_id)
        units == IF denom > 0 THEN row.amount_vnd \div denom ELSE 0
    IN  IF found /\ units > 0
        THEN [st EXCEPT
                !.items = [@ EXCEPT ![i].quantity = @ + units],
                !.ledger = _safe_add_ledger(@,
                              LedgerRow(row.user_id, row.amount_vnd, "credit", "revoke", i,
                                        IdemKey("refund", order_id, r)))]
        ELSE st

RECURSIVE refund_rows(_, _, _)
refund_rows(st, order_id, rs) ==
    IF rs = <<>> THEN st
    ELSE refund_rows(refund_row(st, order_id, Head(rs)), order_id, Tail(rs))

(* The restoration loop: a line that raises rolls the session back to the *)
(* committed state and sets had_error; the loop goes on with the next line *)
RECURSIVE restore_lines(_, _, _, _, _)
restore_lines(st, committed, lines, k, failAt) ==
    IF k > Len(lines) THEN st
    ELSE restore_lines(IF failAt = k
                       THEN [committed EXCEPT !.had_error = TRUE]
                       ELSE restore_line(st, lines[k]),
                       committed, lines, k + 1, failAt)

(* A rejection that forgets had_error *)
reject_outcome_unchecked(st, committed) == st

(* had_error raises after the loops; the outer handler rolls back *)
reject_outcome(st, committed) ==
    IF st.had_error THEN committed ELSE st

(* failAt: 0 for no failure, k for an exception at order line k, and *)
(* Len(items) + 1 for an exception in the credit refund block.       *)
admin_reject_order(o, failAt) ==
    /\ o \in OrderIdx
    /\ orders[o].status = "pending"
    /\ failAt \in 0..(Len(orders[o].items) + 1)
    /\ LET committed == [cards |-> card_quantity, items |-> inventory_items,
                         rows |-> shop_items, ledger |-> credit_ledger,
                         had_error |-> FALSE]
           restored == restore_lines(committed, committed, orders[o].items, 1, failAt)
           refunded == IF failAt = Len(orders[o].items) + 1
                       THEN [committed EXCEPT !.had_error = TRUE]
                       ELSE refund_rows(restored, orders[o].id,
                                        redeem_rows_of(restored.ledger, orders[o].id))
           final == reject_outcome(refunded, committed)
       IN  /\ card_quantity' = final.cards
           /\ inventory_items' = final.items
           /\ shop_items' = final.rows
           /\ credit_ledger' = final.ledger
           /\ orders' = IF refunded.had_error THEN orders
                        ELSE [orders EXCEPT ![o].status = "rejected"]
           /\ response' = IF refunded.had_error THEN "reject_error" ELSE "ok"
    /\ UNCHANGED <<cart_items, coupons, session, issue_calls, accounts>>

-----------------------------------------------------------------------------
(* POST /api/inventory/withdraw *)

(* The second-stamped part of a withdrawal request id *)
RequestIds == {"WD-1", "WD-2"}

SixHex == {<<10, 11, 12, 13, 14, 15>>}

_generate_order_id ==
    {OrderId("WD", d) : d \in {x \in SixDigits : OrderId("WD", x) \notin order_ids}}
    \cup (IF \E d \in SixDigits : OrderId("WD", d) \in order_ids
          THEN {OrderId("WD", h) : h \in SixHex}
          ELSE {})

(* Each entry is validated on its own against the stored row *)
entry_ok(u, e) ==
    /\ e.quantity > 0
    /\ Live(e.inventory_item_id)
    /\ inventory_items[e.inventory_item_id].user_id = u
    /\ \/ inventory_items[e.inventory_item_id].is_verified
       \/ inventory_items[e.inventory_item_id].verification_status = "verified"
    /\ inventory_items[e.inventory_item_id].quantity >= e.quantity

(* remaining <= 0 deletes the row, otherwise the row is saved with the rest *)
RECURSIVE withdraw_entries(_, _)
withdraw_entries(items, entries) ==
    IF entries = <<>> THEN items
    ELSE LET e == Head(entries)
             i == e.inventory_item_id
             remaining == items[i].quantity - e.quantity
         IN  withdraw_entries(
                 IF remaining <= 0
                 THEN [items EXCEPT ![i].live = FALSE]
                 ELSE [items EXCEPT ![i].quantity = remaining, ![i].live = TRUE],
                 Tail(entries))

(* failAt: "none", or "commit" for a commit that raises (rollback, HTTP 500) *)
inventory_withdraw(u, entries, method, request_id, order_id, failAt) ==
    /\ entries # <<>>
    /\ method \in {"pickup", "shipping"}
    /\ \A k \in DOMAIN entries : entry_ok(u, entries[k])
    /\ order_id \in _generate_order_id
    /\ LET lines == [k \in DOMAIN entries |->
                        OrderItem(inventory_items[entries[k].inventory_item_id].card_id,
                                  entries[k].quantity, Null, NoUser, "withdrawal")]
           total == SumSeq([k \in DOMAIN lines |-> price(lines[k].card_id) * lines[k].quantity])
           order == Order(order_id, u, withdrawal_marker(request_id), method, total, 0, <<>>,
                          lines)
       IN  IF failAt = "commit" \/ order_id \in order_ids
           THEN /\ response' = "withdraw_error"
                /\ UNCHANGED <<inventory_items, orders>>
           ELSE /\ response' = "ok"
                /\ orders' = Append(orders, order)
                /\ inventory_items' = withdraw_entries(inventory_items, entries)
    /\ UNCHANGED <<card_quantity, shop_items, cart_items, coupons, session,
                   credit_ledger, issue_calls, accounts>>

(* DELETE /api/inventory/item/<item_id>.  failAt: "none", or "commit" for a *)
(* commit that raises (a database that enforces the foreign keys of ledger *)
(* rows and order lines on the item refuses the delete): rollback, HTTP 500 *)
delete_inventory_item_api(u, i, failAt) ==
    /\ Live(i)
    /\ inventory_items[i].user_id = u
    /\ IF failAt = "commit"
       THEN /\ response' = "delete_error"
            /\ UNCHANGED inventory_items
       ELSE /\ response' = "ok"
            /\ inventory_items' = [inventory_items EXCEPT ![i].live = FALSE]
    /\ UNCHANGED <<card_quantity, shop_items, cart_items, orders, coupons, session,
                   credit_ledger, issue_calls, accounts>>

(* POST /admin/edit_card/<card_id>: the quantity field, when filled in *)
edit_card_form(c, quantity) ==
    /\ c \in Cards
    /\ card_quantity' = [card_quantity EXCEPT ![c] = quantity]
    /\ response' = "ok"
    /\ UNCHANGED <<inventory_items, shop_items, cart_items, orders, coupons, session,
                   credit_ledger, issue_calls, accounts>>

-----------------------------------------------------------------------------
(* Coupons *)

Coupon(active, limit) == [is_active |-> active, usage_count |-> 0, usage_limit |-> limit]

(* An apply that counts the use when the coupon enters the session *)
api_apply_coupon_counting(k) ==
    /\ cart_items # <<>>
    /\ k \in DOMAIN coupons
    /\ coupons[k].is_active
    /\ session' = [session EXCEPT !.applied_coupon_id = k]
    /\ coupons' = [coupons EXCEPT ![k].usage_count = @ + 1]
    /\ response' = "ok"
    /\ UNCHANGED <<card_quantity, inventory_items, shop_items, cart_items, orders,
                   credit_ledger, issue_calls, accounts>>

(* POST /api/coupon/apply *)
api_apply_coupon(k) ==
    /\ cart_items # <<>>
    /\ k \in DOMAIN coupons
    /\ coupons[k].is_active
    /\ ~(coupons[k].usage_limit # Null /\ coupons[k].usage_count >= coupons[k].usage_limit)
    /\ session' = [session EXCEPT !.applied_coupon_id = k]
    /\ response' = "ok"
    /\ UNCHANGED <<db, issue_calls, accounts>>

(* POST /api/coupon/remove *)
api_remove_coupon ==
    /\ session' = [session EXCEPT !.applied_coupon_id = Null]
    /\ response' = "ok"
    /\ UNCHANGED <<db, issue_calls, accounts>>

(* POST /admin/coupons/<coupon_id>/toggle *)
admin_toggle_coupon(k) ==
    /\ k \in DOMAIN coupons
    /\ coupons' = [coupons EXCEPT ![k].is_active = ~@]
    /\ response' = "ok"
    /\ UNCHANGED <<card_quantity, inventory_items, shop_items, cart_items, orders,
                   session, credit_ledger, issue_calls, accounts>>

-----------------------------------------------------------------------------
(* The shop: consignment, cart, checkout and the order lifecycle *)

NoSession == [applied_coupon_id |-> Null, credit |-> NoPlan]

Quantities == 1..MaxQty

Init ==
    /\ card_quantity = [c \in Cards |-> IF c = TradeCard THEN 1 ELSE 0]
    /\ inventory_items = <<InventoryItem("alice", TradeCard, MaxQty, "verified")>>
    /\ shop_items = <<>>
    /\ cart_items = <<>>
    /\ orders = <<>>
    /\ coupons = [k \in {} |-> Coupon(TRUE, Null)]
    /\ session = NoSession
    /\ credit_ledger = <<>>
    /\ issue_calls = <<>>
    /\ InitAccounts
    /\ response = "ok"

(* The tables stay within the bounds of the model *)
Bounded ==
    /\ Len(inventory_items') <= MaxItems
    /\ Len(orders') <= MaxOrders
    /\ Len(cart_items') <= MaxLines

Consign ==
    \E u \in Users, i \in 1..MaxItems :
        \/ \E qty_req \in Quantities \cup {Null} :
              api_list_inventory_item(u, i, qty_req) /\ Bounded
        \/ api_unlist_inventory_item(u, i)

WithdrawConsignment ==
    \E u \in Users, r \in 1..MaxItems, qty_req \in Quantities :
        api_withdraw_consignment(u, r, qty_req) /\ Bounded

AddToCart ==
    \E quantity \in Quantities :
        \/ _add_to_cart("admin", TradeCard, quantity) /\ Bounded
        \/ \E i \in 1..MaxItems : _add_to_cart("user", i, quantity) /\ Bounded

Checkout ==
    \E d \in SixDigits \cup EightHex, failAt \in {"none", "order", "clear"} :
        checkout(OrderId("ORD", d), "shipping", failAt) /\ Bounded

Fulfill == \E o \in 1..MaxOrders : admin_fulfill_order(o) /\ Bounded

Ship == \E o \in 1..MaxOrders : admin_ship_order(o)

Reject ==
    \E o \in 1..MaxOrders, failAt \in 0..(MaxLines * MaxQty + 1) :
        admin_reject_order(o, failAt)

WithdrawApprove == \E request_id \in RequestIds : admin_withdraw_approve(request_id)

WithdrawReject == \E request_id \in RequestIds : admin_withdraw_reject(request_id)

Entries ==
    UNION {[1..n -> [inventory_item_id : 1..MaxItems, quantity : Quantities]] :
              n \in 1..MaxEntries}

InventoryWithdraw ==
    \E u \in Users, entries \in Entries, request_id \in RequestIds,
       d \in SixDigits \cup SixHex, failAt \in {"none", "commit"} :
        inventory_withdraw(u, entries, "shipping", request_id, OrderId("WD", d), failAt)
        /\ Bounded

EditCard == \E quantity \in 0..MaxQty : edit_card_form(TradeCard, quantity)

Next ==
    \/ Consign
    \/ WithdrawConsignment
    \/ AddToCart
    \/ Checkout
    \/ Reject

Spec == Init /\ [][Next]_vars

-----------------------------------------------------------------------------
(* The order lifecycle: shop orders and withdrawal orders under the admin's *)
(* confirm, ship, reject, withdrawal-approve and withdrawal-reject actions  *)

CheckoutTo ==
    \E d \in SixDigits \cup EightHex, method \in {"shipping", "inventory"} :
        checkout(OrderId("ORD", d), method, "none") /\ Bounded

NextOrders ==
    \/ AddToCart
    \/ CheckoutTo
    \/ InventoryWithdraw
    \/ Fulfill
    \/ Ship
    \/ Reject
    \/ WithdrawApprove
    \/ WithdrawReject

SpecOrders == Init /\ [][NextOrders]_vars

Transitions ==
    {<<"pending", "confirmed">>, <<"pending", "shipped">>,
     <<"confirmed", "shipped">>, <<"pending", "rejected">>}

(* C1: in every step, every order keeps its status or moves along one of    *)
(* pending->confirmed, pending->shipped, confirmed->shipped and             *)
(* pending->rejected; so a shipped or rejected order never changes status   *)
(* again and a confirmed order can only become shipped.                     *)
C1_StatusTransitions ==
    [][\A o \in OrderIdx :
          \/ orders'[o].status = orders[o].status
          \/ <<orders[o].status, orders'[o].status>> \in Transitions]_vars

-----------------------------------------------------------------------------
(* Checkout as one transaction *)

line_deducted(line) ==
    IF item_type(line) = "admin"
    THEN card_quantity'[line.card_id] = card_quantity[line.card_id] - line.quantity
    ELSE inventory_items'[line.inventory_item_id].quantity =
             inventory_items[line.inventory_item_id].quantity - line.quantity

order_placed ==
    /\ Len(orders') = Len(orders) + 1
    /\ SumSeq([k \in DOMAIN orders'[Len(orders')].items |->
                  orders'[Len(orders')].items[k].quantity])
         = SumSeq([k \in DOMAIN cart_items |-> cart_items[k].quantity])
    /\ \A k \in DOMAIN cart_items : line_deducted(cart_items[k])
    /\ cart_items' = <<>>

nothing_placed ==
    UNCHANGED <<orders, card_quantity, inventory_items, shop_items, cart_items>>

(* C2: every checkout submission either leaves the order with its lines,   *)
(* every line's stock deducted and the cart empty, or leaves no order, no   *)
(* stock change and the cart as it was.                                     *)
C2_AllOrNothing ==
    [][response' \in {"order_placed", "checkout_error"}
          => order_placed \/ nothing_placed]_vars

(* C2: a checkout answered with an error has left an order behind while *)
(* the cart still holds the lines it was placed from                    *)
C2_OrderAndCart ==
    /\ response = "checkout_error"
    /\ orders # <<>>
    /\ cart_items # <<>>

-----------------------------------------------------------------------------
(* Order rejection *)

rejected_now(o) ==
    /\ orders[o].status = "pending"
    /\ orders'[o].status = "rejected"

qty_where(lines, Test(_)) ==
    SumSeq([k \in DOMAIN lines |-> IF Test(lines[k]) THEN lines[k].quantity ELSE 0])

from_row(oi, r) ==
    /\ oi.card_id = shop_items[r].card_id
    /\ oi.seller_user_id = shop_items[r].from_user_id
    /\ oi.inventory_item_id = shop_items[r].source_inventory_item_id

(* What a rejection owes the shop stock of card c and the consignment record r *)
owed_card(o, c) ==
    qty_where(orders[o].items,
              LAMBDA oi : oi.card_id = c /\ oi.source \in {"shop", "consignment"})

owed_row(o, r) ==
    qty_where(orders[o].items,
              LAMBDA oi : oi.source = "consignment" /\ from_row(oi, r))

owed_item(o, i) ==
    qty_where(orders[o].items,
              LAMBDA oi : oi.source = "user" /\ oi.inventory_item_id = i)

other_card(o, c) ==
    qty_where(orders[o].items,
              LAMBDA oi : oi.card_id = c /\ oi.source \notin {"shop", "consignment"})

(* C3: a rejection raises Card.quantity by the quantity of every line sold *)
(* from shop stock or from a consignment record, and raises each record by *)
(* the quantity of the lines allocated from it: by at least that much, and *)
(* by exactly that much when the order has no other line on that card.     *)
C3_RejectRestoresShopStock ==
    [][\A o \in OrderIdx : rejected_now(o) =>
          /\ \A c \in Cards :
                /\ card_quantity'[c] - card_quantity[c] >= owed_card(o, c)
                /\ other_card(o, c) = 0 =>
                       card_quantity'[c] - card_quantity[c] = owed_card(o, c)
          /\ \A r \in ShopIds :
                /\ shop_items'[r].quantity - shop_items[r].quantity >= owed_row(o, r)
                /\ other_card(o, shop_items[r].card_id) = 0 =>
                       shop_items'[r].quantity - shop_items[r].quantity = owed_row(o, r)]_vars

(* C3: a rejected order that had a line from a consignment record and a *)
(* line from shop stock                                                 *)
C3_RejectedMixedOrder ==
    \E o \in OrderIdx :
        /\ orders[o].status = "rejected"
        /\ \E k \in DOMAIN orders[o].items : orders[o].items[k].source = "consignment"
        /\ \E k \in DOMAIN orders[o].items : orders[o].items[k].source = "shop"

(* C4: a rejection changes Card.quantity and the consignment records only   *)
(* by what the shop and consignment lines are owed, so not at all for a     *)
(* line sold directly from an inventory item, and raises that item by the   *)
(* line quantity.                                                           *)
C4_RejectDirectSale ==
    [][\A o \in OrderIdx : rejected_now(o) =>
          /\ \A c \in Cards : card_quantity'[c] - card_quantity[c] = owed_card(o, c)
          /\ \A r \in ShopIds :
                shop_items'[r].quantity - shop_items[r].quantity = owed_row(o, r)
          /\ \A i \in ItemIds :
                inventory_items'[i].quantity - inventory_items[i].quantity
                    = owed_item(o, i)]_vars

(* C4: a rejected order with a line sold directly from an inventory item *)
(* that has a consignment record                                         *)
C4_RejectedDirectSale ==
    \E o \in OrderIdx :
        /\ orders[o].status = "rejected"
        /\ \E k \in DOMAIN orders[o].items :
              /\ orders[o].items[k].source = "user"
              /\ \E r \in ShopIds : from_row(orders[o].items[k], r)

(* C5: a rejection in which a restoration or refund step raised leaves the *)
(* order pending and every Card quantity, consignment record, inventory    *)
(* item and ledger row as it was.                                          *)
C5_FailedRejectHasNoEffect ==
    [][response' = "reject_error" =>
          UNCHANGED <<orders, card_quantity, shop_items, inventory_items,
                      credit_ledger>>]_vars

(* C5: a rejection has failed on an order that has two lines to restore *)
(* and redeemed credit to refund, and the order is still pending        *)
C5_FailedReject ==
    /\ response = "reject_error"
    /\ \E o \in OrderIdx :
          /\ orders[o].status = "pending"
          /\ Len(orders[o].items) >= 2
          /\ \E r \in DOMAIN credit_ledger :
                /\ credit_ledger[r].kind = "redeem"
                /\ credit_ledger[r].idempotency_key.order_id = orders[o].id

-----------------------------------------------------------------------------
(* Consignment stock *)

consigned(c) ==
    SumSeq([r \in DOMAIN shop_items |->
               IF shop_items[r].card_id = c THEN shop_items[r].quantity ELSE 0])

PlaceOrder ==
    \E d \in SixDigits : checkout(OrderId("ORD", d), "shipping", "none") /\ Bounded

RejectOrder == \E o \in 1..MaxOrders : admin_reject_order(o, 0)

NextEdit ==
    \/ Consign
    \/ WithdrawConsignment
    \/ AddToCart
    \/ PlaceOrder
    \/ RejectOrder
    \/ EditCard

SpecEdit == Init /\ [][NextEdit]_vars

(* C8: for every card, the quantities of its consignment records add up to *)
(* at most Card.quantity.                                                  *)
C8_ConsignedWithinStock ==
    \A c \in Cards : consigned(c) <= card_quantity[c]

(* C9: a checkout decrements a consignment record only if every older     *)
(* record of the same card is left at zero, and writes a shop-owned line   *)
(* only if every consignment record of the card is left at zero.          *)
C9_FifoAllocation ==
    [][Len(orders') > Len(orders) =>
          /\ \A r1, r2 \in ShopIds :
                (/\ r1 < r2
                 /\ shop_items[r1].card_id = shop_items[r2].card_id
                 /\ shop_items'[r2].quantity < shop_items[r2].quantity)
                    => shop_items'[r1].quantity = 0
          /\ \A k \in DOMAIN orders'[Len(orders')].items :
                orders'[Len(orders')].items[k].source = "shop" =>
                    \A r \in ShopIds :
                        shop_items[r].card_id = orders'[Len(orders')].items[k].card_id
                            => shop_items'[r].quantity = 0]_vars

(* C9: an order was allocated from two consignment records, or from one *)
(* of two records that both held stock                                  *)
C9_TwoRecords ==
    /\ orders # <<>>
    /\ \E k \in DOMAIN orders[1].items : orders[1].items[k].source = "consignment"
    /\ \E r1, r2 \in ShopIds :
          /\ r1 < r2
          /\ shop_items[r1].card_id = shop_items[r2].card_id
          /\ shop_items[r1].quantity = 0
          /\ shop_items[r2].quantity > 0
          /\ orders[1].status = "pending"

-----------------------------------------------------------------------------
(* Store credit at checkout: the buyer holds CREDIT tokens, stages a plan, *)
(* places orders that redeem it, and the admin rejects them.  One unit of  *)
(* the shop's stock is consigned by alice, who has listed her whole item.  *)

InitCredit ==
    /\ card_quantity = [c \in Cards |-> IF c = TradeCard THEN MaxQty ELSE 0]
    /\ inventory_items = <<InventoryItem(Buyer, CreditCard10k, MaxQty, "verified"),
                           InventoryItem(Buyer, CreditCard1k, MaxQty, "verified"),
                           InventoryItem("alice", TradeCard, 0, "verified")>>
    /\ shop_items = <<ShopInventoryItem(TradeCard, "alice", 3, 1)>>
    /\ cart_items = <<>>
    /\ orders = <<>>
    /\ coupons = [k \in {} |-> Coupon(TRUE, Null)]
    /\ session = NoSession
    /\ credit_ledger = <<>>
    /\ issue_calls = <<>>
    /\ InitAccounts
    /\ response = "ok"

BoundedCredit ==
    /\ Len(orders') <= MaxRedemptions
    /\ Len(cart_items') <= MaxLines

AddShopToCart == _add_to_cart("admin", TradeCard, 1) /\ BoundedCredit

ApplyCredits == checkout_apply_credits(cart_total(cart_items), Null, "auto")

CheckoutCredit ==
    \E d \in SixDigits \cup EightHex :
        checkout(OrderId("ORD", d), "shipping", "none") /\ BoundedCredit

RejectCredit ==
    \E o \in 1..MaxRedemptions, failAt \in 0..(MaxLines * MaxQty + 1) :
        admin_reject_order(o, failAt)

DeleteItem ==
    \E i \in ItemIds, failAt \in {"none", "commit"} :
        delete_inventory_item_api(Buyer, i, failAt)

NextCredit ==
    \/ AddShopToCart
    \/ ApplyCredits
    \/ CheckoutCredit
    \/ RejectCredit
    \/ DeleteItem

SpecCredit == InitCredit /\ [][NextCredit]_vars

(* The redeem rows of order o, and the units of card c they took *)
redeemed_by(o) ==
    {r \in DOMAIN credit_ledger :
        /\ credit_ledger[r].kind = "redeem"
        /\ credit_ledger[r].idempotency_key.scope = "order"
        /\ credit_ledger[r].idempotency_key.order_id = orders[o].id}

units_redeemed(o, c) ==
    SumSeq([r \in DOMAIN credit_ledger |->
               IF r \in redeemed_by(o) /\ credit_ledger[r].idempotency_key.part = c
               THEN credit_ledger[r].amount_vnd \div price(c)
               ELSE 0])

revokes_of(ledger, r) ==
    {x \in DOMAIN ledger :
        /\ ledger[x].kind = "revoke"
        /\ ledger[x].direction = "credit"
        /\ ledger[x].user_id = ledger[r].user_id
        /\ ledger[x].amount_vnd = ledger[r].amount_vnd
        /\ ledger[x].idempotency_key.scope = "refund"
        /\ ledger[x].idempotency_key.part = r}

(* C7: a rejection gives the buyer back, per denomination, exactly the    *)
(* units the order's redeem rows took, adds exactly one revoke row for    *)
(* each of those redeem rows, and changes no other holding or ledger row. *)
C7_RejectReversesRedemption ==
    [][\A o \in OrderIdx : rejected_now(o) =>
          /\ \A c \in CreditCards :
                held_units(inventory_items', Buyer, c)
                    = held_units(inventory_items, Buyer, c) + units_redeemed(o, c)
          /\ Len(credit_ledger') = Len(credit_ledger) + Cardinality(redeemed_by(o))
          /\ SubSeq(credit_ledger', 1, Len(credit_ledger)) = credit_ledger
          /\ \A r \in redeemed_by(o) :
                Cardinality(revokes_of(credit_ledger', r)
                                \ revokes_of(credit_ledger, r)) = 1]_vars

(* C7: an order that had redeemed credit is rejected and its revoke row *)
(* is in the ledger                                                     *)
C7_RejectedRedemption ==
    \E o \in OrderIdx :
        /\ orders[o].status = "rejected"
        /\ redeemed_by(o) # {}
        /\ \E r \in redeemed_by(o) : revokes_of(credit_ledger, r) # {}

-----------------------------------------------------------------------------
(* Credit issue: POST /admin/credit/issue requests that run side by side. *)
(* A request is in issue_calls from its idempotency check to its answer.  *)

IssueKeys == {IdemKey("issue", NoKey.order_id, n) : n \in 1..2}

IssueCall(key, units, pc, result) ==
    [idempotency_key |-> key, units |-> units, pc |-> pc, result |-> result]

(* The unique index on credit_ledger.idempotency_key admits the row *)
ux_credit_ledger_idem(ledger, row) ==
    \/ row.idempotency_key = NoKey
    \/ \A r \in DOMAIN ledger : ledger[r].idempotency_key # row.idempotency_key

(* issue_credits, first step: a key already recorded is answered as a replay *)
(* (ServiceError IDEMPOTENT_REPLAY, which the route passes on), without effect *)
issue_credits_check(key, units) ==
    /\ IF \E r \in DOMAIN credit_ledger : credit_ledger[r].idempotency_key = key
       THEN /\ issue_calls' = Append(issue_calls,
                                     IssueCall(key, units, "done", "IDEMPOTENT_REPLAY"))
            /\ response' = "IDEMPOTENT_REPLAY"
       ELSE /\ issue_calls' = Append(issue_calls, IssueCall(key, units, "locked", ""))
            /\ UNCHANGED response
    /\ UNCHANGED <<db, session, accounts>>

(* issue_credits, second step: under the row locks the holding is created or *)
(* raised and the ledger row appended; a commit the unique index refuses is  *)
(* rolled back and the route answers with an error                           *)
issue_credits_commit(n, u, c) ==
    /\ n \in DOMAIN issue_calls
    /\ issue_calls[n].pc = "locked"
    /\ LET units == issue_calls[n].units
           held == credit_item(inventory_items, u, c)
           item == IF held = Null THEN Len(inventory_items) + 1 ELSE held
           row == LedgerRow(u, price(c) * units, "credit", "issue", item,
                            issue_calls[n].idempotency_key)
       IN  IF ux_credit_ledger_idem(credit_ledger, row)
           THEN /\ inventory_items' =
                      IF held = Null
                      THEN Append(inventory_items, InventoryItem(u, c, units, "verified"))
                      ELSE [inventory_items EXCEPT ![held].quantity = @ + units]
                /\ credit_ledger' = Append(credit_ledger, row)
                /\ issue_calls' = [issue_calls EXCEPT ![n].pc = "done",
                                                      ![n].result = "success"]
                /\ response' = "success"
           ELSE /\ issue_calls' = [issue_calls EXCEPT ![n].pc = "done",
                                                      ![n].result = "INTERNAL_ERROR"]
                /\ response' = "INTERNAL_ERROR"
                /\ UNCHANGED <<inventory_items, credit_ledger>>
    /\ UNCHANGED <<card_quantity, shop_items, cart_items, orders, coupons, session,
                   accounts>>

InitIssue ==
    /\ card_quantity = [c \in Cards |-> 0]
    /\ inventory_items = <<>>
    /\ shop_items = <<>>
    /\ cart_items = <<>>
    /\ orders = <<>>
    /\ coupons = [k \in {} |-> Coupon(TRUE, Null)]
    /\ session = NoSession
    /\ credit_ledger = <<>>
    /\ issue_calls = <<>>
    /\ InitAccounts
    /\ response = "ok"

IssueRequest ==
    \E key \in IssueKeys, units \in Quantities :
        /\ Len(issue_calls) < MaxCalls
        /\ issue_credits_check(key, units)

IssueCommit ==
    \E n \in 1..MaxCalls : issue_credits_commit(n, Buyer, CreditCard10k)

NextIssue == IssueRequest \/ IssueCommit

SpecIssue == InitIssue /\ [][NextIssue]_vars

issue_rows(key) ==
    {r \in DOMAIN credit_ledger : credit_ledger[r].idempotency_key = key}

answered(key) ==
    {n \in DOMAIN issue_calls : /\ issue_calls[n].idempotency_key = key
                                /\ issue_calls[n].pc = "done"}

(* C6: for each idempotency key there is one ledger row and one increment *)
(* of the holding once a call with it has been answered, and of the calls *)
(* answered one is a fresh success and every other one a replay.          *)
C6_IssueOnceThenReplay ==
    /\ \A key \in IssueKeys :
          answered(key) # {} =>
             /\ Cardinality(issue_rows(key)) = 1
             /\ Cardinality({n \in answered(key) : issue_calls[n].result = "success"}) = 1
             /\ \A n \in answered(key) :
                   issue_calls[n].result \in {"success", "IDEMPOTENT_REPLAY"}
    /\ held_units(inventory_items, Buyer, CreditCard10k) * price(CreditCard10k)
          = SumSeq([r \in DOMAIN credit_ledger |-> credit_ledger[r].amount_vnd])

-----------------------------------------------------------------------------
(* Coupons at checkout: the buyer applies and removes the coupon, the admin *)
(* switches it on and off, and checkouts succeed or fail                    *)

InitCoupon ==
    /\ card_quantity = [c \in Cards |-> IF c = TradeCard THEN MaxQty ELSE 0]
    /\ inventory_items = <<>>
    /\ shop_items = <<>>
    /\ cart_items = <<>>
    /\ orders = <<>>
    /\ \E limit \in {Null, 1} : coupons = [k \in Coupons |-> Coupon(TRUE, limit)]
    /\ session = NoSession
    /\ credit_ledger = <<>>
    /\ issue_calls = <<>>
    /\ InitAccounts
    /\ response = "ok"

ApplyCoupon == \E k \in Coupons : api_apply_coupon(k)

ToggleCoupon == \E k \in Coupons : admin_toggle_coupon(k)

CheckoutCoupon ==
    \E d \in SixDigits, failAt \in {"none", "order", "clear"} :
        checkout(OrderId("ORD", d), "shipping", failAt) /\ BoundedCredit

NextCoupon ==
    \/ AddShopToCart
    \/ ApplyCoupon
    \/ api_remove_coupon
    \/ ToggleCoupon
    \/ CheckoutCoupon

SpecCoupon == InitCoupon /\ [][NextCoupon]_vars

(* The step commits an order that consumed a coupon *)
coupon_order_committed ==
    /\ Len(orders') = Len(orders) + 1
    /\ orders'[Len(orders')].discounted_total # <<>>

-----------------------------------------------------------------------------
(* POST /inventory/transfer and transfer_item *)

InventoryTransferLog(from, to, c, quantity) ==
    [from_user_id |-> from, to_user_id |-> to, card_id |-> c, quantity |-> quantity,
     is_credit |-> is_credit(c)]

(* The units of card c in the live inventory rows of user u *)
owned_units(items, u, c) ==
    SumSeq([i \in DOMAIN items |->
               IF items[i].live /\ items[i].user_id = u /\ items[i].card_id = c
               THEN items[i].quantity ELSE 0])

(* The ledger rows without the CHECK on the amount *)
chk_credit_amount_any(row) == TRUE

(* CHECK amount_vnd > 0 on credit_ledger *)
chk_credit_amount_positive(row) == row.amount_vnd > 0

(* The source row after the move: a row that reaches zero is removed or kept *)
transfer_out_of(items, i, quantity, retain_zero) ==
    IF items[i].quantity - quantity = 0 /\ ~retain_zero
    THEN [items EXCEPT ![i].quantity = 0, ![i].live = FALSE]
    ELSE [items EXCEPT ![i].quantity = @ - quantity]

(* The destination row: the receiver's row for the card is raised, or a row *)
(* is created; a CREDIT row is forced verified                              *)
transfer_into(items, to, c, quantity, status) ==
    LET dest == item_of(items, to, c)
        st == IF is_credit(c) THEN "verified" ELSE status
    IN  IF dest = Null
        THEN Append(items, InventoryItem(to, c, quantity, st))
        ELSE [items EXCEPT ![dest].quantity = @ + quantity,
                           ![dest].verification_status =
                               IF is_credit(c) THEN "verified" ELSE @,
                           ![dest].is_verified = IF is_credit(c) THEN TRUE ELSE @]

transfer_ledger_rows(from, to, c, quantity, i, dest) ==
    <<LedgerRow(from, price(c) * quantity, "debit", "transfer_out", i, NoKey),
      LedgerRow(to, price(c) * quantity, "credit", "transfer_in", dest, NoKey)>>

(* transfer_item(from, to, item, quantity): the answer with the tables as *)
(* the call leaves them; a refused or failed call leaves them as they were *)
transfer_item(from, to, i, quantity, retain_zero) ==
    LET same == [code |-> "", items |-> inventory_items, ledger |-> credit_ledger,
                 logs |-> transfer_logs]
    IN  IF ~(Live(i) /\ inventory_items[i].user_id = from)
        THEN [same EXCEPT !.code = "ITEM_NOT_FOUND"]
        ELSE IF from = to
        THEN [same EXCEPT !.code = "SELF_TRANSFER"]
        ELSE IF inventory_items[i].quantity < quantity
        THEN [same EXCEPT !.code = "INSUFFICIENT_QUANTITY"]
        ELSE LET c == inventory_items[i].card_id
                 moved == transfer_into(
                              transfer_out_of(inventory_items, i, quantity, retain_zero),
                              to, c, quantity, inventory_items[i].verification_status)
                 dest == item_of(moved, to, c)
                 rows == IF is_credit(c)
                         THEN transfer_ledger_rows(from, to, c, quantity, i, dest)
                         ELSE <<>>
             IN  IF \/ \E x \in DOMAIN moved : moved[x].quantity < 0
                    \/ \E r \in DOMAIN rows : ~chk_credit_amount_positive(rows[r])
                 THEN [same EXCEPT !.code = "INTERNAL_ERROR"]
                 ELSE [code |-> "success", items |-> moved,
                       ledger |-> credit_ledger \o rows,
                       logs |-> Append(transfer_logs,
                                       InventoryTransferLog(from, to, c, quantity))]

inventory_transfer(actor, from_user_id, to_user_id, i, quantity, retain_zero) ==
    /\ to_user_id \in Accounts
    /\ IF actor # from_user_id /\ ~is_admin(actor)
       THEN /\ response' = "FORBIDDEN"
            /\ UNCHANGED <<inventory_items, credit_ledger, transfer_logs>>
       ELSE LET res == transfer_item(from_user_id, to_user_id, i, quantity, retain_zero)
            IN  /\ response' = res.code
                /\ inventory_items' = res.items
                /\ credit_ledger' = res.ledger
                /\ transfer_logs' = res.logs
    /\ UNCHANGED <<card_quantity, shop_items, cart_items, orders, coupons, session,
                   issue_calls, users, verification_audit_log, catalog,
                   login_session, now, workers>>

(* The users hold CREDIT tokens of one denomination and send them to each other *)
InitTransfer ==
    /\ card_quantity = [c \in Cards |-> 0]
    /\ inventory_items = <<InventoryItem("alice", CreditCard10k, MaxQty, "verified"),
                           InventoryItem("bob", CreditCard10k, 1, "verified")>>
    /\ shop_items = <<>>
    /\ cart_items = <<>>
    /\ orders = <<>>
    /\ coupons = [k \in {} |-> Coupon(TRUE, Null)]
    /\ session = NoSession
    /\ credit_ledger = <<>>
    /\ issue_calls = <<>>
    /\ InitAccounts
    /\ response = "ok"

Transfer ==
    \E from \in Users, to \in Accounts, i \in 1..(MaxItems + MaxTransfers),
       quantity \in (-1)..(MaxQty + 1), retain_zero \in BOOLEAN :
        /\ i \in ItemIds
        /\ inventory_transfer(from, from, to, i, quantity, retain_zero)
        /\ Len(transfer_logs') <= MaxTransfers

NextTransfer == Transfer

SpecTransfer == InitTransfer /\ [][NextTransfer]_vars

(* The row the step has added to the transfer log *)
transferred == transfer_logs'[Len(transfer_logs')]

(* C11: a transfer that succeeds moves q >= 1 units of the CREDIT card from *)
(* the sender, whose holding stays at or above zero, to the receiver, and  *)
(* appends one transfer_out debit on the sender and one transfer_in credit *)
(* on the receiver of the same amount; a self-transfer and a request for   *)
(* more than the item holds change no holding, ledger row or log row.      *)
C11_TransferConservesCredit ==
    [][/\ response' = "success" =>
             /\ Len(transfer_logs') = Len(transfer_logs) + 1
             /\ transferred.is_credit
             /\ transferred.quantity >= 1
             /\ owned_units(inventory_items', transferred.from_user_id, transferred.card_id)
                  = owned_units(inventory_items, transferred.from_user_id,
                                transferred.card_id) - transferred.quantity
             /\ owned_units(inventory_items', transferred.from_user_id,
                            transferred.card_id) >= 0
             /\ owned_units(inventory_items', transferred.to_user_id, transferred.card_id)
                  = owned_units(inventory_items, transferred.to_user_id,
                                transferred.card_id) + transferred.quantity
             /\ Len(credit_ledger') = Len(credit_ledger) + 2
             /\ SubSeq(credit_ledger', 1, Len(credit_ledger)) = credit_ledger
             /\ LET out == credit_ledger'[Len(credit_ledger) + 1]
                    in == credit_ledger'[Len(credit_ledger) + 2]
                IN  /\ out.kind = "transfer_out" /\ out.direction = "debit"
                    /\ out.user_id = transferred.from_user_id
                    /\ in.kind = "transfer_in" /\ in.direction = "credit"
                    /\ in.user_id = transferred.to_user_id
                    /\ out.amount_vnd = in.amount_vnd
                    /\ out.amount_vnd = transferred.quantity * price(transferred.card_id)
       /\ response' \in {"SELF_TRANSFER", "INSUFFICIENT_QUANTITY"} =>
             UNCHANGED <<inventory_items, credit_ledger, transfer_logs>>]_vars

(* C11: credit has been sent both ways, and the last request was refused *)
(* for asking more than the item holds                                   *)
C11_TransferredAndRefused ==
    /\ Len(transfer_logs) = 2
    /\ transfer_logs[1].from_user_id # transfer_logs[2].from_user_id
    /\ Len(credit_ledger) = 4
    /\ response = "INSUFFICIENT_QUANTITY"

-----------------------------------------------------------------------------
(* The auto preview of POST /checkout/apply-credits over the buyer's holdings *)

AmountsDue == {0, 999, 1000, 2500, 12000, 23000, 100000, 111000, 222000, 250000}

InitApply ==
    /\ card_quantity = [c \in Cards |-> 0]
    /\ \E h100k \in 0..MaxQty, h10k \in 0..MaxQty, h1k \in 0..MaxQty :
          inventory_items = <<InventoryItem(Buyer, CreditCard100k, h100k, "verified"),
                              InventoryItem(Buyer, CreditCard10k, h10k, "verified"),
                              InventoryItem(Buyer, CreditCard1k, h1k, "verified")>>
    /\ shop_items = <<>>
    /\ cart_items = <<>>
    /\ orders = <<>>
    /\ coupons = [k \in {} |-> Coupon(TRUE, Null)]
    /\ session = NoSession
    /\ credit_ledger = <<>>
    /\ issue_calls = <<>>
    /\ InitAccounts
    /\ response = "ok"

PreviewAuto ==
    \E amount_due_vnd \in AmountsDue, coupon_pct \in {Null, 50} :
        checkout_apply_credits(amount_due_vnd, coupon_pct, "auto")

NextApply == PreviewAuto

SpecApply == InitApply /\ [][NextApply]_vars

(* The units of card c in a breakdown *)
units_of(breakdown, c) ==
    SumSeq([k \in DOMAIN breakdown |->
               IF breakdown[k].card_id = c THEN breakdown[k].units ELSE 0])

(* The amounts that units within the holdings of user u can make up *)
coverable(items, u) ==
    {SumSeq([k \in DOMAIN Denominations |-> f[k] * Denominations[k]]) :
        f \in {g \in [DOMAIN Denominations -> 0..MaxQty] :
                 \A k \in DOMAIN Denominations :
                    g[k] <= held_units(items, u, credit_card_of(Denominations[k]))}}

(* C12: a staged auto plan uses of each denomination no more units than the  *)
(* buyer holds, applies no more than the amount due, applies the largest     *)
(* amount within the amount due that the held units can make up, takes the   *)
(* denominations 100,000, 10,000, 1,000 in that order, each as far as the    *)
(* rest of the amount allows, and reports remaining = due - applied.         *)
C12_AutoPlanIsGreedyMaximum ==
    session.credit.staged =>
        LET plan == session.credit
            due == plan.amount_after_pct
            rest(k) == due - SumSeq([j \in 1..(k - 1) |->
                                        units_of(plan.breakdown,
                                                 credit_card_of(Denominations[j]))
                                          * Denominations[j]])
        IN  /\ \A c \in CreditCards :
                  units_of(plan.breakdown, c) <= held_units(inventory_items, Buyer, c)
            /\ plan.applied_vnd = breakdown_vnd(plan.breakdown)
            /\ plan.applied_vnd <= due
            /\ \A amount \in coverable(inventory_items, Buyer) :
                  amount <= due => amount <= plan.applied_vnd
            /\ \A k \in DOMAIN Denominations :
                  units_of(plan.breakdown, credit_card_of(Denominations[k]))
                    = Min(held_units(inventory_items, Buyer,
                                     credit_card_of(Denominations[k])),
                          rest(k) \div Denominations[k])
            /\ plan.remaining_vnd = due - plan.applied_vnd

(* C12: a plan that takes all three denominations and leaves part of the *)
(* amount due, with a unit of the smallest denomination left unused     *)
C12_ThreeDenominationsPartly ==
    /\ session.credit.staged
    /\ \A c \in CreditCards : units_of(session.credit.breakdown, c) > 0
    /\ session.credit.remaining_vnd > 0
    /\ session.credit.applied_vnd > 0
    /\ \E c \in CreditCards :
          units_of(session.credit.breakdown, c) < held_units(inventory_items, Buyer, c)

-----------------------------------------------------------------------------
(* User management: the admin's routes over accounts and item verification *)

VerificationStatuses == {"unverified", "pending", "verified"}
Roles == {"user", "admin", "super_admin"}
AccountStatuses == {"active", "suspended", "banned"}

(* What the account and verification routes leave alone *)
shop == <<card_quantity, shop_items, cart_items, orders, coupons, session,
          credit_ledger, issue_calls, transfer_logs, catalog, workers>>

(* VerificationAuditLog.create_log stores a status as a nullable boolean *)
status_to_bool(status) ==
    IF status = "verified" THEN <<TRUE>>
    ELSE IF status = "unverified" THEN <<FALSE>>
    ELSE <<>>

VerificationAuditLog(i, admin_id, action, previous_status, new_status) ==
    [inventory_item_id |-> i, admin_id |-> admin_id, action |-> action,
     previous_status |-> status_to_bool(previous_status),
     new_status |-> status_to_bool(new_status)]

(* User._sync_inventory_verification_status, over the items from row i on *)
RECURSIVE _sync_inventory_verification_status(_, _, _, _, _, _)
_sync_inventory_verification_status(items, log, u, new_status, admin_user, i) ==
    IF i > Len(items) THEN [items |-> items, log |-> log]
    ELSE IF /\ items[i].live
            /\ items[i].user_id = u
            /\ items[i].verification_status # new_status
    THEN _sync_inventory_verification_status(
             [items EXCEPT ![i].verification_status = new_status,
                           ![i].is_verified = (new_status = "verified")],
             IF admin_user # NoUser
             THEN Append(log, VerificationAuditLog(i, admin_user, "bulk_status_change",
                                                   items[i].verification_status,
                                                   new_status))
             ELSE log,
             u, new_status, admin_user, i + 1)
    ELSE _sync_inventory_verification_status(items, log, u, new_status, admin_user, i + 1)

(* User.suspend_account(reason, expires_at, admin_user) *)
suspend_account(u, expires_at, admin_user) ==
    /\ users' = [users EXCEPT ![u].account_status = "suspended",
                              ![u].suspension_expires = expires_at]
    /\ LET synced == _sync_inventory_verification_status(
                         inventory_items, verification_audit_log, u, "unverified",
                         admin_user, 1)
       IN  /\ inventory_items' = synced.items
           /\ verification_audit_log' = synced.log

(* User.ban_account(reason, admin_user) *)
ban_account(u, admin_user) ==
    /\ users' = [users EXCEPT ![u].account_status = "banned",
                              ![u].suspension_expires = <<>>]
    /\ LET synced == _sync_inventory_verification_status(
                         inventory_items, verification_audit_log, u, "unverified",
                         admin_user, 1)
       IN  /\ inventory_items' = synced.items
           /\ verification_audit_log' = synced.log

(* User.reactivate_account(admin_user): the inventory is left as it is *)
reactivate_account(u) ==
    users' = [users EXCEPT ![u].account_status = "active",
                           ![u].suspension_expires = <<>>]

(* @admin_required *)
admin_required == login_session \in Accounts /\ is_admin(login_session)

(* A request that is answered without a write *)
refused(message) ==
    /\ response' = message
    /\ UNCHANGED <<users, inventory_items, verification_audit_log, login_session, now, shop>>

(* POST /admin/users/<user_id>/suspend *)
admin_suspend_user(user_id, days) ==
    IF ~admin_required THEN refused("denied")
    ELSE IF user_id = login_session THEN refused("own_account")
    ELSE IF is_super_admin(user_id) /\ ~is_super_admin(login_session)
    THEN refused("no_permission")
    ELSE /\ suspend_account(user_id, IF days = Null THEN <<>> ELSE <<now + days>>,
                            login_session)
         /\ response' = "suspended"
         /\ UNCHANGED <<login_session, now, shop>>

(* POST /admin/users/<user_id>/ban *)
admin_ban_user(user_id) ==
    IF ~admin_required THEN refused("denied")
    ELSE IF user_id = login_session THEN refused("own_account")
    ELSE IF is_super_admin(user_id) /\ ~is_super_admin(login_session)
    THEN refused("no_permission")
    ELSE /\ ban_account(user_id, login_session)
         /\ response' = "banned"
         /\ UNCHANGED <<login_session, now, shop>>

(* POST /admin/users/<user_id>/reactivate *)
admin_reactivate_user(user_id) ==
    IF ~admin_required THEN refused("denied")
    ELSE /\ reactivate_account(user_id)
         /\ response' = "reactivated"
         /\ UNCHANGED <<inventory_items, verification_audit_log, login_session, now, shop>>

(* POST /admin/users/<user_id>/edit *)
admin_edit_user(user_id, email, new_role, account_status, suspension_days) ==
    IF ~admin_required THEN refused("denied")
    ELSE IF is_super_admin(user_id) /\ ~is_super_admin(login_session)
    THEN refused("no_permission")
    ELSE IF new_role = "super_admin" /\ ~is_super_admin(login_session)
    THEN refused("no_permission")
    ELSE /\ users' = [users EXCEPT
                        ![user_id].email = email,
                        ![user_id].role = new_role,
                        ![user_id].account_status = account_status,
                        ![user_id].suspension_expires =
                            IF account_status = "suspended" /\ suspension_days # Null
                            THEN <<now + suspension_days>>
                            ELSE <<>>]
         /\ response' = "updated"
         /\ UNCHANGED <<inventory_items, verification_audit_log, login_session, now, shop>>

(* POST /admin/users/<user_id>/reset-password *)
admin_reset_password(user_id, temp_password) ==
    IF ~admin_required THEN refused("denied")
    ELSE IF is_super_admin(user_id) /\ ~is_super_admin(login_session)
    THEN refused("no_permission")
    ELSE /\ users' = [users EXCEPT
                        ![user_id].password_hash = generate_password_hash(temp_password)]
         /\ response' = "password_reset"
         /\ UNCHANGED <<inventory_items, verification_audit_log, login_session, now, shop>>

(* The update without the check of the owner's account *)
update_verification_status_unchecked(items, log, i, new_status, admin_user) ==
    [error |-> FALSE,
     items |-> [items EXCEPT ![i].verification_status = new_status,
                             ![i].is_verified = (new_status = "verified")],
     log |-> Append(log, VerificationAuditLog(i, admin_user, "status_change",
                                              items[i].verification_status,
                                              new_status))]

(* InventoryItem.update_verification_status(new_status, admin_user): the *)
(* outcome, with error set where the method raises ValueError            *)
update_verification_status(items, log, i, new_status, admin_user) ==
    IF ~is_active(items[i].user_id) /\ new_status = "verified"
    THEN [error |-> TRUE, items |-> items, log |-> log]
    ELSE [error |-> FALSE,
          items |-> [items EXCEPT ![i].verification_status = new_status,
                                  ![i].is_verified = (new_status = "verified")],
          log |-> Append(log, VerificationAuditLog(i, admin_user, "status_change",
                                                   items[i].verification_status,
                                                   new_status))]

(* POST /admin/users/<user_id>/inventory/<item_id>/verify *)
admin_update_verification_status(user_id, item_id, new_status) ==
    IF ~admin_required THEN refused("denied")
    ELSE IF ~Live(item_id) THEN refused("not_found")
    ELSE IF inventory_items[item_id].user_id # user_id THEN refused("not_owner")
    ELSE IF new_status \notin VerificationStatuses THEN refused("invalid_status")
    ELSE LET res == update_verification_status(inventory_items, verification_audit_log,
                                               item_id, new_status, login_session)
         IN  IF res.error THEN refused("cannot_verify")
             ELSE /\ inventory_items' = res.items
                  /\ verification_audit_log' = res.log
                  /\ response' = "status_updated"
                  /\ UNCHANGED <<users, login_session, now, shop>>

(* POST /login *)
login(username, password) ==
    IF login_session # NoUser THEN refused("already_in")
    ELSE IF /\ username \in Accounts
            /\ check_password_hash(users[username].password_hash, password)
            /\ is_active(username)
    THEN /\ login_session' = username
         /\ response' = "welcome"
         /\ UNCHANGED <<users, inventory_items, verification_audit_log, now, shop>>
    ELSE refused("invalid_login")

(* GET /logout *)
logout ==
    /\ login_session # NoUser
    /\ login_session' = NoUser
    /\ response' = "goodbye"
    /\ UNCHANGED <<users, inventory_items, verification_audit_log, now, shop>>

-----------------------------------------------------------------------------
(* Suspension and verification: the admins act on alice and her two items *)

MaxAudit == 3           \* rows the verification_audit_logs table may hold

InitSuspend ==
    /\ card_quantity = [c \in Cards |-> 0]
    /\ inventory_items = <<InventoryItem("alice", TradeCard, 1, "verified"),
                           InventoryItem("alice", CreditCard1k, 1, "pending")>>
    /\ shop_items = <<>>
    /\ cart_items = <<>>
    /\ orders = <<>>
    /\ coupons = [k \in {} |-> Coupon(TRUE, Null)]
    /\ session = NoSession
    /\ credit_ledger = <<>>
    /\ issue_calls = <<>>
    /\ InitAccounts
    /\ response = "ok"

BoundedAudit == Len(verification_audit_log') <= MaxAudit

AdminLogin == \E username \in Admins : login(username, "pw0")

Suspend == admin_suspend_user("alice", Null) /\ BoundedAudit

Ban == admin_ban_user("alice") /\ BoundedAudit

Reactivate == admin_reactivate_user("alice")

EditStatus ==
    \E account_status \in AccountStatuses :
        admin_edit_user("alice", users["alice"].email, users["alice"].role,
                        account_status, Null)

Verify ==
    \E item_id \in 1..MaxItems, new_status \in VerificationStatuses :
        admin_update_verification_status("alice", item_id, new_status) /\ BoundedAudit

NextSuspend ==
    \/ AdminLogin
    \/ logout
    \/ Suspend
    \/ Ban
    \/ Reactivate
    \/ EditStatus
    \/ Verify

SpecSuspend == InitSuspend /\ [][NextSuspend]_vars

(* The audit rows a step appended *)
new_audit_rows ==
    SubSeq(verification_audit_log', Len(verification_audit_log) + 1,
           Len(verification_audit_log'))

(* The account of u becomes suspended or banned in this step *)
becomes_inactive(u) ==
    /\ users'[u].account_status \in {"suspended", "banned"}
    /\ users'[u].account_status # users[u].account_status

(* C13: when an account becomes suspended or banned, every item of the     *)
(* user is unverified when the step completes, and the step wrote exactly  *)
(* one bulk_status_change audit row for each item whose status it changed. *)
C13_InactiveOwnerItemsUnverified ==
    [][\A u \in Users :
          becomes_inactive(u) =>
             \A i \in DOMAIN inventory_items' :
                (inventory_items'[i].live /\ inventory_items'[i].user_id = u) =>
                   /\ inventory_items'[i].verification_status = "unverified"
                   /\ ~inventory_items'[i].is_verified
                   /\ (i \in DOMAIN inventory_items
                       /\ inventory_items[i].verification_status # "unverified") =>
                         Cardinality({r \in DOMAIN new_audit_rows :
                                        /\ new_audit_rows[r].inventory_item_id = i
                                        /\ new_audit_rows[r].action = "bulk_status_change"})
                           = 1]_vars

(* C13: alice was suspended with a verified item through the user edit form *)
C13_SuspendedByEditForm ==
    /\ response = "updated"
    /\ users["alice"].account_status = "suspended"
    /\ inventory_items[1].is_verified
    /\ verification_audit_log = <<>>

(* C14: a request to set an item to verified while its owner is suspended *)
(* or banned is answered with the domain error and leaves the item's       *)
(* verification_status and is_verified and the audit log unchanged; no     *)
(* account or verification route verifies an item of an inactive owner.    *)
C14_NoVerifyForInactiveOwner ==
    [][/\ \A u \in Users, i \in DOMAIN inventory_items :
             (/\ admin_required
              /\ inventory_items[i].live
              /\ inventory_items[i].user_id = u
              /\ ~is_active(u)
              /\ admin_update_verification_status(u, i, "verified")) =>
                 /\ response' = "cannot_verify"
                 /\ inventory_items' = inventory_items
                 /\ verification_audit_log' = verification_audit_log
       /\ response' = "cannot_verify" =>
             /\ inventory_items' = inventory_items
             /\ verification_audit_log' = verification_audit_log
       /\ \A i \in DOMAIN inventory_items :
             (/\ ~is_active(inventory_items[i].user_id)
              /\ ~inventory_items[i].is_verified) =>
                 /\ ~inventory_items'[i].is_verified
                 /\ inventory_items'[i].verification_status # "verified"]_vars

(* C14: the admin was refused the verification of an item of suspended *)
(* alice, whose items the suspension had unverified and logged         *)
C14_VerifyRefused ==
    /\ response = "cannot_verify"
    /\ users["alice"].account_status = "suspended"
    /\ Len(verification_audit_log) = 2
    /\ \A i \in DOMAIN inventory_items : ~inventory_items[i].is_verified

-----------------------------------------------------------------------------
(* Selling a user's item: bob buys from the shop or from alice's inventory *)
(* while an admin verifies, unverifies and suspends                        *)

InitSale ==
    /\ card_quantity = [c \in Cards |-> IF c = TradeCard THEN 1 ELSE 0]
    /\ inventory_items = <<InventoryItem("alice", TradeCard, MaxQty, "verified"),
                           InventoryItem(Buyer, TradeCard, 1, "unverified")>>
    /\ shop_items = <<>>
    /\ cart_items = <<>>
    /\ orders = <<>>
    /\ coupons = [k \in {} |-> Coupon(TRUE, Null)]
    /\ session = NoSession
    /\ credit_ledger = <<>>
    /\ issue_calls = <<>>
    /\ InitAccounts
    /\ response = "ok"

NextSale ==
    \/ AdminLogin
    \/ AddToCart
    \/ CheckoutTo
    \/ Fulfill
    \/ Verify
    \/ Suspend

SpecSale == InitSale /\ [][NextSale]_vars

(* C15: every step that changes the verification_status of an item appends *)
(* a VerificationAuditLog row for that item with the previous and the new  *)
(* status.                                                                 *)
C15_StatusChangeIsLogged ==
    [][\A i \in DOMAIN inventory_items :
          inventory_items'[i].verification_status # inventory_items[i].verification_status =>
             \E r \in DOMAIN new_audit_rows :
                /\ new_audit_rows[r].inventory_item_id = i
                /\ new_audit_rows[r].previous_status
                     = status_to_bool(inventory_items[i].verification_status)
                /\ new_audit_rows[r].new_status
                     = status_to_bool(inventory_items'[i].verification_status)]_vars

(* C15: the order to bob's inventory was confirmed and his unverified item *)
(* is verified with no audit row written                                   *)
C15_VerifiedByFulfilment ==
    /\ Len(orders) = 1
    /\ orders[1].status = "confirmed"
    /\ orders[1].shipment_method = "inventory"
    /\ inventory_items[2].verification_status = "verified"
    /\ verification_audit_log = <<>>

(* The order a step placed *)
placed == orders'[Len(orders')]

(* C16: when an order is placed, every user inventory item backing one of *)
(* its lines is verified.                                                 *)
C16_OnlyVerifiedItemsSold ==
    [][Len(orders') > Len(orders) =>
          \A k \in DOMAIN placed.items :
             placed.items[k].source = "user" =>
                /\ inventory_items[placed.items[k].inventory_item_id].is_verified
                /\ inventory_items[placed.items[k].inventory_item_id].verification_status
                     = "verified"]_vars

(* C16: an order holds a line sold from alice's item, which the admin had *)
(* unverified after bob put it in his cart                                *)
C16_UnverifiedItemSold ==
    /\ Len(orders) = 1
    /\ \E k \in DOMAIN orders[1].items :
          /\ orders[1].items[k].source = "user"
          /\ orders[1].items[k].inventory_item_id = 1
    /\ ~inventory_items[1].is_verified
    /\ Len(verification_audit_log) = 1
    /\ response = "ok"

-----------------------------------------------------------------------------
(* Login under a suspension that runs out: days pass while alice is suspended *)

MaxNow == 3             \* days the clock runs

(* User.can_login(): the answer and the account as the call leaves it *)
can_login(user) ==
    IF user.account_status = "banned" THEN [ok |-> FALSE, user |-> user]
    ELSE IF /\ user.account_status = "suspended"
            /\ user.suspension_expires # <<>>
            /\ now < user.suspension_expires[1]
    THEN [ok |-> FALSE, user |-> user]
    ELSE IF user.account_status = "suspended" /\ user.suspension_expires # <<>>
    THEN [ok |-> TRUE,
          user |-> [user EXCEPT !.account_status = "active", !.suspension_expires = <<>>]]
    ELSE [ok |-> user.account_status = "active", user |-> user]

(* A day passes *)
Tick ==
    /\ now < MaxNow
    /\ now' = now + 1
    /\ UNCHANGED <<users, inventory_items, verification_audit_log, login_session,
                   response, shop>>

SuspendFor ==
    \E days \in {Null, 1} : admin_suspend_user("alice", days) /\ BoundedAudit

AnyLogin == \E username \in Accounts : login(username, "pw0")

NextLogin ==
    \/ AnyLogin
    \/ logout
    \/ SuspendFor
    \/ Reactivate
    \/ Tick

SpecLogin == InitSuspend /\ [][NextLogin]_vars

(* C17: a suspended user whose suspension_expires has passed and who posts *)
(* the right password to /login is logged in, and the account is active   *)
(* again.                                                                 *)
C17_ExpiredSuspensionLogsIn ==
    [][\A u \in Users :
          (/\ users[u].account_status = "suspended"
           /\ users[u].suspension_expires # <<>>
           /\ ~(now < users[u].suspension_expires[1])
           /\ can_login(users[u]).ok
           /\ login_session = NoUser
           /\ login(u, "pw0")) =>
              /\ login_session' = u
              /\ users'[u].account_status = "active"]_vars

(* C17: alice's one-day suspension has run out, she posted her password and *)
(* was refused; she is still suspended                                     *)
C17_ExpiredStillRefused ==
    /\ response = "invalid_login"
    /\ login_session = NoUser
    /\ users["alice"].account_status = "suspended"
    /\ users["alice"].suspension_expires # <<>>
    /\ ~(now < users["alice"].suspension_expires[1])
    /\ users["bob"].account_status = "active"

-----------------------------------------------------------------------------
(* Listing an item for sale and unlisting it again *)

(* The quantity of the consignment record of item i, 0 while there is none *)
record_quantity(items, rows, i) ==
    LET r == shop_row_in(rows, items[i].card_id, items[i].user_id, i)
    IN  IF r = Null THEN 0 ELSE rows[r].quantity

(* The three tables after item i is listed with qty_req and then unlisted *)
list_then_unlist(i, qty_req) ==
    LET listed == list_item(card_quantity, inventory_items, shop_items, i, qty_req)
    IN  unlist_item(listed.card_quantity, listed.inventory_items, listed.shop_items, i)

(* Item i of user u can be listed with qty_req, and the unlisting then acts *)
listable(u, i, qty_req) ==
    /\ can_list(inventory_items, u, i)
    /\ qty_req # Null => qty_req <= inventory_items[i].quantity
    /\ LET listed == list_item(card_quantity, inventory_items, shop_items, i, qty_req)
       IN  can_unlist(listed.inventory_items, listed.shop_items, u, i)

(* The round trip leaves the item, the card and the record as they were *)
restored(i, qty_req) ==
    LET after == list_then_unlist(i, qty_req)
        c == inventory_items[i].card_id
    IN  /\ after.inventory_items[i].quantity = inventory_items[i].quantity
        /\ after.card_quantity[c] = card_quantity[c]
        /\ record_quantity(after.inventory_items, after.shop_items, i) = 0
        /\ record_quantity(after.inventory_items, after.shop_items, i)
             = record_quantity(inventory_items, shop_items, i)

(* C18 as stated: listing q units of a verified item and then unlisting it *)
(* returns the item's quantity, the card's shop quantity and the item's    *)
(* consignment record to the values before the listing, the record zero.   *)
C18_ListUnlistRestores ==
    \A u \in Users, i \in DOMAIN inventory_items, qty_req \in Quantities \cup {Null} :
        listable(u, i, qty_req) => restored(i, qty_req)

(* C18 amended: the same, for an item whose consignment record is absent *)
(* or at zero and a card whose shop quantity is not negative before the  *)
(* listing.                                                              *)
C18_ListUnlistRestoresFromZero ==
    \A u \in Users, i \in DOMAIN inventory_items, qty_req \in Quantities \cup {Null} :
        (/\ listable(u, i, qty_req)
         /\ record_quantity(inventory_items, shop_items, i) = 0
         /\ card_quantity[inventory_items[i].card_id] >= 0) =>
            restored(i, qty_req)

(* C18: alice's item is back at its full quantity after a listing and an *)
(* unlisting, its consignment record at zero, and can be listed again    *)
C18_UnlistedAfterListing ==
    /\ listable("alice", 1, 1)
    /\ inventory_items[1].quantity = MaxQty
    /\ card_quantity[TradeCard] = 1
    /\ \E r \in DOMAIN shop_items :
          /\ shop_items[r].source_inventory_item_id = 1
          /\ shop_items[r].quantity = 0
    /\ response = "ok"

-----------------------------------------------------------------------------
(* Roles: an admin and a super admin manage the accounts, each other's too *)

Managed == Admins

Passwords == {"pw0", "pw1"}

Emails == {"e0", "e1"}

LoginAs == \E username \in Admins, password \in Passwords : login(username, password)

(* The form changes the e-mail, the role or the account status *)
EditAccount ==
    \E user_id \in Managed :
        \/ \E email \in Emails :
              admin_edit_user(user_id, email, users[user_id].role,
                              users[user_id].account_status, Null)
        \/ \E new_role \in Roles :
              admin_edit_user(user_id, users[user_id].email, new_role,
                              users[user_id].account_status, Null)
        \/ \E account_status \in AccountStatuses :
              admin_edit_user(user_id, users[user_id].email, users[user_id].role,
                              account_status, Null)

SuspendAccount == \E user_id \in Managed : admin_suspend_user(user_id, Null)

BanAccount == \E user_id \in Managed : admin_ban_user(user_id)

ReactivateAccount == \E user_id \in Managed : admin_reactivate_user(user_id)

ResetPassword == \E user_id \in Managed : admin_reset_password(user_id, "pw1")

NextRoles ==
    \/ LoginAs
    \/ logout
    \/ EditAccount
    \/ SuspendAccount
    \/ BanAccount
    \/ ReactivateAccount
    \/ ResetPassword

SpecRoles == InitSuspend /\ [][NextRoles]_vars

(* The browser is an admin's who is not a super admin *)
plain_admin ==
    /\ login_session \in Accounts
    /\ is_admin(login_session)
    /\ ~is_super_admin(login_session)

(* C19: no step taken by an admin who is not a super admin changes the    *)
(* role, account status, password or e-mail of a super admin, or makes a  *)
(* user a super admin.                                                    *)
C19_SuperAdminBeyondAdmins ==
    [][plain_admin =>
          \A t \in Accounts :
             /\ is_super_admin(t) =>
                   /\ users'[t].role = users[t].role
                   /\ users'[t].account_status = users[t].account_status
                   /\ users'[t].password_hash = users[t].password_hash
                   /\ users'[t].email = users[t].email
             /\ users'[t].role = "super_admin" => users[t].role = "super_admin"]_vars

(* C19: the plain admin's request to reactivate the super admin was *)
(* carried out                                                      *)
C19_AdminReactivatedSuperAdmin ==
    /\ response = "reactivated"
    /\ login_session = "admin"
    /\ users["admin"].role = "admin"
    /\ users["root"].role = "super_admin"
    /\ users["root"].account_status = "active"
    /\ users["root"].email = "e1"

-----------------------------------------------------------------------------
(* The catalog under CSV import: DatabaseStorage.process_csv_upload *)

MaxCards == 3           \* rows the cards table may hold
MaxRows == 2            \* data rows of one CSV
MaxStock == 4           \* largest quantity a card of the catalog reaches

(* The six fields a row is matched on; a missing name is the empty string *)
CardKey(name, foiling) ==
    [name |-> name, set_name |-> "Core", rarity |-> "Common", condition |-> "Near Mint",
     foiling |-> foiling, art_style |-> "normal"]

Keys == {CardKey("Bolt", "NF"), CardKey("Bolt", "F"), CardKey("Ward", "NF")}

(* A data row after csv.DictReader: price and quantity are <<n>> where the *)
(* text parses and <<>> where float() or int() raises                      *)
CsvRow(key, row_price, quantity) ==
    [key |-> key, price |-> row_price, quantity |-> quantity]

CsvRows ==
    {CsvRow(k, <<1>>, <<q>>) : k \in Keys, q \in 1..MaxQty}
        \cup {CsvRow(CardKey("Bolt", "NF"), <<2>>, <<1>>),
              CsvRow(CardKey("Bolt", "NF"), <<1>>, <<>>),
              CsvRow(CardKey("Ward", "NF"), <<>>, <<1>>),
              CsvRow(CardKey("", "NF"), <<1>>, <<1>>)}

Csvs == UNION {[1..n -> CsvRows] : n \in 1..MaxRows}

CatalogCard(key, card_price, quantity) ==
    [key |-> key, price |-> card_price, quantity |-> quantity, is_deleted |-> FALSE]

(* A lookup on the name alone *)
find_existing_card_by_name(cards, key) ==
    First({c \in DOMAIN cards : cards[c].key.name = key.name /\ ~cards[c].is_deleted})

(* DatabaseStorage.find_existing_card: the first non-deleted card that *)
(* matches the six fields, or Null                                     *)
find_existing_card(cards, key) ==
    First({c \in DOMAIN cards : cards[c].key = key /\ ~cards[c].is_deleted})

(* DatabaseStorage.update_existing_card_quantity *)
update_existing_card_quantity(cards, c, additional_quantity, card_price) ==
    [cards EXCEPT ![c].quantity = @ + additional_quantity,
                  ![c].price = card_price]

(* DatabaseStorage.add_card *)
add_card(cards, key, card_price, quantity) ==
    Append(cards, CatalogCard(key, card_price, quantity))

(* One turn of the loop of process_csv_upload. st.quantity is the local  *)
(* variable quantity: <<>> while unbound; a row whose quantity does not  *)
(* parse records an error and goes on with the value of the row before.  *)
process_row(st, row) ==
    IF row.key.name = "" THEN [st EXCEPT !.errors = @ + 1]
    ELSE IF row.price = <<>> THEN [st EXCEPT !.errors = @ + 1]
    ELSE LET parsed == row.quantity # <<>>
             quantity == IF parsed THEN row.quantity ELSE st.quantity
             errors == IF parsed THEN st.errors ELSE st.errors + 1
             existing == find_existing_card(st.cards, row.key)
         IN  IF quantity = <<>>
             THEN [st EXCEPT !.errors = errors + 1]
             ELSE IF existing # Null
             THEN [cards |-> update_existing_card_quantity(st.cards, existing,
                                                           quantity[1], row.price[1]),
                   quantity |-> quantity, errors |-> errors,
                   created |-> st.created, updated |-> st.updated + 1]
             ELSE [cards |-> add_card(st.cards, row.key, row.price[1], quantity[1]),
                   quantity |-> quantity, errors |-> errors,
                   created |-> st.created + 1, updated |-> st.updated]

RECURSIVE process_rows(_, _)
process_rows(st, rows) ==
    IF rows = <<>> THEN st ELSE process_rows(process_row(st, Head(rows)), Tail(rows))

(* DatabaseStorage.process_csv_upload(csv_content) *)
process_csv_upload(cards, rows) ==
    process_rows([cards |-> cards, quantity |-> <<>>, errors |-> 0,
                  created |-> 0, updated |-> 0], rows)

(* POST /admin/upload_csv *)
upload_csv(rows) ==
    /\ catalog' = process_csv_upload(catalog, rows).cards
    /\ response' = "imported"
    /\ UNCHANGED <<db, session, issue_calls, users, verification_audit_log,
                   transfer_logs, login_session, now, workers>>

(* POST /admin/delete_card/<card_id>: DatabaseStorage.soft_delete_card *)
delete_card_form(c) ==
    /\ c \in DOMAIN catalog
    /\ ~catalog[c].is_deleted
    /\ catalog' = [catalog EXCEPT ![c].is_deleted = TRUE]
    /\ response' = "deleted"
    /\ UNCHANGED <<db, session, issue_calls, users, verification_audit_log,
                   transfer_logs, login_session, now, workers>>

BoundedCatalog ==
    /\ Len(catalog') <= MaxCards
    /\ \A c \in DOMAIN catalog' : catalog'[c].quantity <= MaxStock

UploadCsv == \E rows \in Csvs : upload_csv(rows) /\ BoundedCatalog

DeleteCard == \E c \in 1..MaxCards : delete_card_form(c)

NextImport ==
    \/ UploadCsv
    \/ DeleteCard

SpecImport == Init /\ [][NextImport]_vars

(* The non-deleted cards of cards whose six fields equal those of row *)
matching(cards, row) ==
    {c \in DOMAIN cards : /\ ~cards[c].is_deleted
                          /\ cards[c].key.name = row.key.name
                          /\ cards[c].key.set_name = row.key.set_name
                          /\ cards[c].key.rarity = row.key.rarity
                          /\ cards[c].key.condition = row.key.condition
                          /\ cards[c].key.foiling = row.key.foiling
                          /\ cards[c].key.art_style = row.key.art_style}

(* A row that imports: it has a name, a price and a quantity *)
valid_row(row) == row.key.name # "" /\ row.price # <<>> /\ row.quantity # <<>>

(* The CSVs of valid rows with pairwise distinct keys *)
distinct_key_csvs ==
    {rows \in Csvs :
        /\ \A k \in DOMAIN rows : valid_row(rows[k])
        /\ \A j, k \in DOMAIN rows : j # k => rows[j].key # rows[k].key}

(* C20: a row that matches an existing non-deleted card on the six fields  *)
(* adds its quantity to one such card and creates no card; importing a CSV *)
(* of distinct-key rows a second time right after the first adds each      *)
(* row's quantity once more and creates no card, so that a card the first  *)
(* import created holds twice its quantity.                                *)
C20_ImportMergesAndDoubles ==
    /\ \A row \in CsvRows :
          (valid_row(row) /\ matching(catalog, row) # {}) =>
             LET after == process_csv_upload(catalog, <<row>>).cards
             IN  /\ Len(after) = Len(catalog)
                 /\ \E c \in matching(catalog, row) :
                       /\ after[c].quantity = catalog[c].quantity + row.quantity[1]
                       /\ \A d \in DOMAIN catalog \ {c} :
                             after[d].quantity = catalog[d].quantity
    /\ \A rows \in distinct_key_csvs :
          LET once == process_csv_upload(catalog, rows).cards
              twice == process_csv_upload(once, rows).cards
          IN  /\ Len(twice) = Len(once)
              /\ \A k \in DOMAIN rows :
                    \E c \in matching(once, rows[k]) :
                       /\ twice[c].quantity = once[c].quantity + rows[k].quantity[1]
                       /\ matching(catalog, rows[k]) = {} =>
                             /\ once[c].quantity = rows[k].quantity[1]
                             /\ twice[c].quantity = 2 * once[c].quantity

(* C20: two cards hold twice the quantity of their rows after the same CSV *)
(* was imported twice, next to a deleted card of the same key              *)
C20_ImportedTwice ==
    /\ response = "imported"
    /\ Len(catalog) = 3
    /\ catalog[1].is_deleted
    /\ catalog[2].key # catalog[3].key
    /\ catalog[1].key = catalog[2].key
    /\ catalog[2].quantity = 2 * MaxQty /\ ~catalog[2].is_deleted
    /\ catalog[3].quantity = 2 /\ ~catalog[3].is_deleted

-----------------------------------------------------------------------------
(* The outcome of each row of an import *)

(* The loop of process_csv_upload before and after row k of rows *)
before_row(rows, k) == process_csv_upload(catalog, SubSeq(rows, 1, k - 1))
after_row(rows, k) == process_row(before_row(rows, k), rows[k])

(* results['success'] rises with created or updated *)
row_succeeded(rows, k) ==
    after_row(rows, k).created + after_row(rows, k).updated
        > before_row(rows, k).created + before_row(rows, k).updated

row_failed(rows, k) == after_row(rows, k).errors > before_row(rows, k).errors

row_persisted(rows, k) == after_row(rows, k).cards # before_row(rows, k).cards

(* C21: every data row of an import is either counted as a success and *)
(* persisted, or reported as an error and not persisted, never both; a  *)
(* row without a name, with an unparsable price or with an unparsable   *)
(* quantity is reported as an error.                                    *)
C21_RowSucceedsOrFails ==
    \A rows \in Csvs, k \in 1..MaxRows :
        k \in DOMAIN rows =>
           /\ row_succeeded(rows, k) # row_failed(rows, k)
           /\ row_succeeded(rows, k) = row_persisted(rows, k)
           /\ ~valid_row(rows[k]) => row_failed(rows, k) /\ ~row_persisted(rows, k)

-----------------------------------------------------------------------------
(* The metrics counter (src/metrics.py): threads of one process inside inc *)

MetricNames == {"checkout.ok", "login.ok"}
Amounts == {1, 2}

(* self._values.get(name, 0) *)
values_get(counter, name) ==
    IF name \in DOMAIN counter._values THEN counter._values[name] ELSE 0

(* self._values[name] = value *)
values_set(counter, name, value) ==
    [counter EXCEPT !._values =
        [n \in DOMAIN counter._values \cup {name} |->
            IF n = name THEN value ELSE counter._values[n]]]

(* A thread that starts at the with statement whatever the lock says *)
lock_ignored(counter) == TRUE

(* threading.Lock.acquire returns only while no thread holds the lock *)
lock_free(counter) == ~counter._lock

(* inc(name, amount) enters "with self._lock" *)
inc_acquire(t, name, amount) ==
    /\ inc_calls[t].pc = "idle"
    /\ lock_free(COUNTERS)
    /\ COUNTERS' = [COUNTERS EXCEPT !._lock = TRUE]
    /\ inc_calls' = [inc_calls EXCEPT ![t] =
                        [pc |-> "locked", name |-> name, amount |-> amount, value |-> 0]]
    /\ UNCHANGED <<db, session, issue_calls, response, users, verification_audit_log,
                   transfer_logs, catalog, login_session, now, checkout_calls, request>>

(* the right-hand side: self._values.get(name, 0) + amount *)
inc_get(t) ==
    /\ inc_calls[t].pc = "locked"
    /\ inc_calls' = [inc_calls EXCEPT ![t].pc = "read",
                                      ![t].value = values_get(COUNTERS, inc_calls[t].name)
                                                   + inc_calls[t].amount]
    /\ UNCHANGED <<db, session, issue_calls, response, users, verification_audit_log,
                   transfer_logs, catalog, login_session, now, COUNTERS, checkout_calls,
                   request>>

(* the assignment: self._values[name] = ... *)
inc_set(t) ==
    /\ inc_calls[t].pc = "read"
    /\ COUNTERS' = values_set(COUNTERS, inc_calls[t].name, inc_calls[t].value)
    /\ inc_calls' = [inc_calls EXCEPT ![t].pc = "written"]
    /\ UNCHANGED <<db, session, issue_calls, response, users, verification_audit_log,
                   transfer_logs, catalog, login_session, now, checkout_calls, request>>

(* the end of the with block releases the lock and inc returns *)
inc_release(t) ==
    /\ inc_calls[t].pc = "written"
    /\ COUNTERS' = [COUNTERS EXCEPT !._lock = FALSE]
    /\ inc_calls' = [inc_calls EXCEPT ![t].pc = "done"]
    /\ UNCHANGED <<db, session, issue_calls, response, users, verification_audit_log,
                   transfer_logs, catalog, login_session, now, checkout_calls, request>>

IncAcquire == \E t \in Threads, name \in MetricNames, amount \in Amounts :
                  inc_acquire(t, name, amount)
IncGet == \E t \in Threads : inc_get(t)
IncSet == \E t \in Threads : inc_set(t)
IncRelease == \E t \in Threads : inc_release(t)

NextMetrics == IncAcquire \/ IncGet \/ IncSet \/ IncRelease

SpecMetrics == Init /\ [][NextMetrics]_vars

(* The sum of the amounts the calls for one name were given *)
amounts_passed(name) ==
    SumSeq([t \in Threads |-> IF inc_calls[t].pc # "idle" /\ inc_calls[t].name = name
                              THEN inc_calls[t].amount ELSE 0])

all_calls_complete == \A t \in Threads : inc_calls[t].pc \in {"idle", "done"}

(* C22: once every inc call has returned, each counter holds the sum of the *)
(* amounts passed for its name (0 for a name no call named), whatever the   *)
(* interleaving of the calls was: no update is lost.                        *)
C22_NoLostUpdate ==
    all_calls_complete =>
        \A name \in MetricNames : values_get(COUNTERS, name) = amounts_passed(name)

(* C22: every thread has completed an inc, at least two of them on one name *)
C22_AllCallsComplete ==
    /\ \A t \in Threads : inc_calls[t].pc = "done"
    /\ \E t, u \in Threads : t # u /\ inc_calls[t].name = inc_calls[u].name
    /\ \E name \in MetricNames : values_get(COUNTERS, name) >= 2

-----------------------------------------------------------------------------
(* get_redirect_target (src/deployment_package/auth.py): a URL is the        *)
(* sequence of its pieces, an absent header or parameter is <<>> and a       *)
(* present one is <<url>>                                                    *)

host_url == <<"http:", "/", "/", "localhost", "/">>

Urls ==
    { <<>>,
      <<"/">>,
      <<"/", "admin">>,
      <<"/", "catalog">>,
      <<"admin">>,
      <<"/", "/", "evil.com", "/", "admin">>,
      <<"/", "/", "localhost", "/", "admin">>,
      <<"http:", "/", "/", "localhost", "/", "admin">>,
      <<"http:", "/", "/", "localhost", "/", "catalog">>,
      <<"http:", "/", "/", "localhost", "/">>,
      <<"http:", "/", "/", "evil.com", "/", "admin">>,
      <<"https:", "/", "/", "evil.com", "/">> }

Targets == {<<>>} \cup {<<url>> : url \in Urls}

(* str.startswith *)
startswith(url, prefix) == IsPrefix(prefix, url)

(* A check that lets protocol-relative targets through *)
is_rooted(url) == startswith(url, <<"/">>)

(* target.startswith('/') and not target.startswith('//') *)
is_relative(url) == startswith(url, <<"/">>) /\ ~startswith(url, <<"/", "/">>)

(* "if not target": None and the empty string are skipped *)
is_given(target) == target # <<>> /\ target[1] # <<>>

RECURSIVE first_relative(_)
first_relative(targets) ==
    IF targets = <<>> THEN <<>>
    ELSE IF is_given(Head(targets)) /\ is_relative(Head(targets)[1]) THEN Head(targets)
    ELSE first_relative(Tail(targets))

get_redirect_target(values_next, referrer) == first_relative(<<values_next, referrer>>)

(* The login view asks for the target of the request it is serving *)
login_redirect ==
    /\ ~request.called
    /\ request' = [request EXCEPT !.called = TRUE,
                                  !.target = get_redirect_target(request.next, request.referrer)]
    /\ UNCHANGED <<db, session, issue_calls, response, users, verification_audit_log,
                   transfer_logs, catalog, login_session, now, COUNTERS, inc_calls,
                   checkout_calls>>

InitRedirect ==
    /\ card_quantity = [c \in Cards |-> 0]
    /\ inventory_items = <<>>
    /\ shop_items = <<>>
    /\ cart_items = <<>>
    /\ orders = <<>>
    /\ coupons = [k \in {} |-> Coupon(TRUE, Null)]
    /\ session = NoSession
    /\ credit_ledger = <<>>
    /\ issue_calls = <<>>
    /\ users = [a \in Accounts |->
                  User(IF a = "root" THEN "super_admin"
                       ELSE IF a = "admin" THEN "admin" ELSE "user")]
    /\ verification_audit_log = <<>>
    /\ transfer_logs = <<>>
    /\ catalog = <<>>
    /\ login_session = NoUser
    /\ now = 0
    /\ COUNTERS = _Counter
    /\ inc_calls = [t \in Threads |-> NoCall]
    /\ checkout_calls = [b \in Browsers |-> NoCheckout]
    /\ request \in [next : Targets, referrer : Targets, called : {FALSE}, target : {<<>>}]
    /\ response = "ok"

NextRedirect == login_redirect

SpecRedirect == InitRedirect /\ [][NextRedirect]_vars

own_host(target) == is_given(target) /\ startswith(target[1], host_url)
path_only(url) == SubSeq(url, Len(host_url), Len(url))

(* C24: for an absolute URL on the own host in the next parameter, or in   *)
(* the referrer of a request without next parameter, the target is that    *)
(* URL's path.                                                             *)
C24_OwnHostUrlGivesPath ==
    request.called =>
        /\ own_host(request.next) => request.target = <<path_only(request.next[1])>>
        /\ ~is_given(request.next) /\ own_host(request.referrer) =>
              request.target = <<path_only(request.referrer[1])>>

(* C24: http://localhost/admin was the next parameter and no target came back *)
C24_OwnHostUrlDropped ==
    /\ request.called
    /\ request.next = << <<"http:", "/", "/", "localhost", "/", "admin">> >>
    /\ request.referrer = <<>>
    /\ request.target = <<>>

-----------------------------------------------------------------------------
(* POST /checkout of two browsers at once: each request validates the stock *)
(* of its cart line, then builds the order and commits.  The cart of a      *)
(* browser holds one line of the shop's TradeCard, and its session the      *)
(* coupon it applied.                                                       *)

(* POST /api/coupon/apply of browser b *)
browser_apply_coupon(b, k) ==
    /\ checkout_calls[b].pc = "idle"
    /\ k \in DOMAIN coupons
    /\ coupons[k].is_active
    /\ ~(coupons[k].usage_limit # Null /\ coupons[k].usage_count >= coupons[k].usage_limit)
    /\ checkout_calls' = [checkout_calls EXCEPT ![b].applied_coupon_id = k]
    /\ response' = "ok"
    /\ UNCHANGED <<db, session, issue_calls, users, verification_audit_log,
                   transfer_logs, catalog, login_session, now, COUNTERS, inc_calls,
                   request>>

(* Card.quantity read again from the database when the stock is deducted *)
quantity_in_database(call) == card_quantity[TradeCard]

(* cart_item.card.quantity of the request's ORM session: the value the    *)
(* stock check loaded, which "-=" reads again without a new SELECT        *)
quantity_in_session(call) == call.loaded

(* The stock check of routes.py:760-772, with the quantity it loads *)
checkout_validate(b, quantity) ==
    /\ checkout_calls[b].pc = "idle"
    /\ IF quantity > card_quantity[TradeCard]
       THEN /\ response' = "insufficient_stock"
            /\ UNCHANGED checkout_calls
       ELSE /\ response' = "validated"
            /\ checkout_calls' = [checkout_calls EXCEPT ![b] =
                                     [pc |-> "validated", quantity |-> quantity,
                                      loaded |-> card_quantity[TradeCard],
                                      applied_coupon_id |-> @.applied_coupon_id]]
    /\ UNCHANGED <<db, session, issue_calls, users, verification_audit_log,
                   transfer_logs, catalog, login_session, now, COUNTERS, inc_calls,
                   request>>

(* The rest of the request: order, order items, stock deduction, commit    *)
(* (routes.py:838-994).  failAt: "none", or "order" for a commit that the  *)
(* database refuses (rollback); a colliding order id is refused as well.   *)
checkout_commit(b, order_id, failAt) ==
    /\ checkout_calls[b].pc = "validated"
    /\ LET call == checkout_calls[b]
           line == CartItem(TradeCard, Null, call.quantity)
           st == place_lines([cards |-> [card_quantity EXCEPT
                                            ![TradeCard] = quantity_in_session(call)],
                              items |-> inventory_items,
                              rows |-> shop_items,
                              order_items |-> <<>>],
                             <<line>>)
           coupon_id == call.applied_coupon_id
           applied_coupon == /\ coupon_id # Null
                             /\ coupon_id \in DOMAIN coupons
                             /\ coupons[coupon_id].is_active
           discount_amount == IF applied_coupon
                              THEN (item_total(line) * discount_percentage(coupon_id)) \div 100
                              ELSE 0
           final_total == item_total(line) - discount_amount
           order == Order(order_id, b, <<>>, "pickup", final_total, discount_amount,
                          IF applied_coupon THEN <<final_total>> ELSE <<>>,
                          st.order_items)
       IN  IF failAt = "order" \/ order_id \in order_ids
           THEN /\ response' = "checkout_error"
                /\ checkout_calls' = [checkout_calls EXCEPT ![b].pc = "idle"]
                /\ UNCHANGED db
           ELSE /\ response' = "order_placed"
                /\ checkout_calls' = [checkout_calls EXCEPT ![b].pc = "placed",
                                                            ![b].applied_coupon_id = Null]
                /\ orders' = Append(orders, order)
                /\ card_quantity' = st.cards
                /\ shop_items' = st.rows
                /\ coupons' = IF applied_coupon
                              THEN [coupons EXCEPT ![coupon_id].usage_count = @ + 1]
                              ELSE coupons
                /\ UNCHANGED <<inventory_items, cart_items, credit_ledger>>
    /\ UNCHANGED <<session, issue_calls, users, verification_audit_log,
                   transfer_logs, catalog, login_session, now, COUNTERS, inc_calls,
                   request>>

BrowserApplyCoupon == \E b \in Browsers, k \in Coupons : browser_apply_coupon(b, k)

CheckoutValidate == \E b \in Browsers, quantity \in Quantities : checkout_validate(b, quantity)

CheckoutCommit ==
    \E b \in Browsers, d \in SixDigits \cup EightHex, failAt \in {"none", "order"} :
        checkout_commit(b, OrderId("ORD", d), failAt)

(* The shop holds between one and MaxQty units of the card, and a coupon *)
(* without usage limit or with a limit of one use                        *)
InitRace ==
    /\ card_quantity \in {[c \in Cards |-> IF c = TradeCard THEN n ELSE 0] : n \in Quantities}
    /\ inventory_items = <<>>
    /\ shop_items = <<>>
    /\ cart_items = <<>>
    /\ orders = <<>>
    /\ \E limit \in {Null, 1} : coupons = [k \in Coupons |-> Coupon(TRUE, limit)]
    /\ session = NoSession
    /\ credit_ledger = <<>>
    /\ issue_calls = <<>>
    /\ InitAccounts
    /\ response = "ok"

NextRace == BrowserApplyCoupon \/ CheckoutValidate \/ CheckoutCommit

SpecRace == InitRace /\ [][NextRace]_vars

(* The units of the card on all orders *)
units_sold ==
    SumSeq([o \in DOMAIN orders |->
               SumSeq([k \in DOMAIN orders[o].items |->
                          IF orders[o].items[k].card_id = TradeCard
                          THEN orders[o].items[k].quantity ELSE 0])])

(* Both requests asked for all the units there were, both passed the stock *)
(* check on the same stock (so before either committed) and both committed *)
both_sold_the_last_units ==
    /\ \A b \in Browsers : /\ checkout_calls[b].pc = "placed"
                           /\ checkout_calls[b].quantity = checkout_calls[b].loaded
    /\ checkout_calls["b1"].loaded = checkout_calls["b2"].loaded

(* C25 as stated: two checkouts that both pass the stock check for the last *)
(* units before either commits and both commit sell more units than existed *)
(* and leave the card's quantity below zero.                                *)
C25_OversoldBelowZero ==
    both_sold_the_last_units =>
        /\ units_sold > checkout_calls["b1"].loaded
        /\ card_quantity[TradeCard] < 0

(* C25 amended: such a pair of checkouts sells twice the units that existed *)
(* and leaves the card's quantity at zero: each request writes the quantity *)
(* it loaded minus its own units, so the quantity is never below zero.      *)
C25_OversoldAtZero ==
    /\ card_quantity[TradeCard] >= 0
    /\ both_sold_the_last_units =>
          /\ units_sold = 2 * checkout_calls["b1"].loaded
          /\ units_sold > checkout_calls["b1"].loaded
          /\ card_quantity[TradeCard] = 0

(* C25: both browsers bought the only unit of the card *)
C25_LastUnitSoldTwice ==
    /\ both_sold_the_last_units
    /\ checkout_calls["b1"].loaded = 1
    /\ Len(orders) = 2

-----------------------------------------------------------------------------
(* Units of a card a user holds: in the personal inventory and on consignment *)

personal_units(items, u, c) ==
    SumSeq([i \in DOMAIN items |->
               IF items[i].live /\ items[i].user_id = u /\ items[i].card_id = c
               THEN items[i].quantity ELSE 0])

consigned_units(rows, u, c) ==
    SumSeq([r \in DOMAIN rows |->
               IF rows[r].from_user_id = u /\ rows[r].card_id = c
               THEN rows[r].quantity ELSE 0])

units_held(items, rows, u, c) == personal_units(items, u, c) + consigned_units(rows, u, c)

(* C26: a listing, an unlisting or a consignment withdrawal leaves, for every *)
(* user and card, the sum of the user's personal item quantities and          *)
(* consignment record quantities of the card as it was.                       *)
C26_ListingConservesUnits ==
    [][(Consign \/ WithdrawConsignment) =>
          \A u \in Users, c \in Cards :
              units_held(inventory_items', shop_items', u, c)
                = units_held(inventory_items, shop_items, u, c)]_vars

(* C26: after a partial listing alice holds one unit more than she owned *)
C26_UnitsAfterPartialListing ==
    /\ Len(inventory_items) = 2
    /\ orders = <<>>
    /\ units_held(inventory_items, shop_items, "alice", TradeCard) = MaxQty + 1

-----------------------------------------------------------------------------
(* Verified items and the status of their owners' accounts *)

inactive(u) == users[u].account_status \in {"suspended", "banned"}

SuspendUser == \E u \in Users : admin_suspend_user(u, Null) /\ BoundedAudit

NextInactive ==
    \/ AdminLogin
    \/ AddToCart
    \/ CheckoutTo
    \/ Fulfill
    \/ SuspendUser

SpecInactive == InitSale /\ [][NextInactive]_vars

(* C27: no inventory item with verification status verified is owned by a *)
(* user whose account is suspended or banned.                             *)
C27_NoVerifiedItemOfInactiveOwner ==
    \A i \in DOMAIN inventory_items :
        (inventory_items[i].live /\ inventory_items[i].verification_status = "verified")
            => ~inactive(inventory_items[i].user_id)

(* C27: the buyer was suspended after ordering into the inventory, and the *)
(* confirmed order left a verified item in the suspended buyer's inventory *)
C27_VerifiedItemOfSuspendedBuyer ==
    /\ users[Buyer].account_status = "suspended"
    /\ \E o \in DOMAIN orders : orders[o].status = "confirmed"
    /\ \E i \in DOMAIN inventory_items :
          /\ inventory_items[i].user_id = Buyer
          /\ inventory_items[i].live
          /\ inventory_items[i].verification_status = "verified"

-----------------------------------------------------------------------------
(* Coupons with a usage limit under the requests of several browsers *)

(* C28: a coupon that has a usage limit is never used more often than the *)
(* limit says, however the apply-coupon and checkout requests of the      *)
(* browsers interleave.                                                   *)
C28_UsageWithinLimit ==
    \A k \in DOMAIN coupons :
        coupons[k].usage_limit # Null => coupons[k].usage_count <= coupons[k].usage_limit

(* C28: both browsers applied the one-use coupon before either ordered, *)
(* and both orders carry its discount                                   *)
C28_OneUseCouponUsedTwice ==
    /\ \E k \in DOMAIN coupons : coupons[k].usage_limit = 1 /\ coupons[k].usage_count = 2
    /\ Len(orders) = 2
    /\ \A o \in DOMAIN orders : orders[o].discounted_total # <<>>
    /\ \A b \in Browsers : checkout_calls[b].pc = "placed"

-----------------------------------------------------------------------------
(* Inventory withdrawal requests with several entries *)

(* The units a request asks of item i, over all its entries *)
requested(entries, i) ==
    SumSeq([k \in DOMAIN entries |->
               IF entries[k].inventory_item_id = i THEN entries[k].quantity ELSE 0])

(* The quantity item i holds; a deleted row holds nothing *)
quantity_held(items, i) == IF items[i].live THEN items[i].quantity ELSE 0

(* The request went through: its withdrawal order is the new last order *)
withdrawn(u, entries) ==
    /\ \E request_id \in RequestIds, d \in SixDigits \cup SixHex :
          inventory_withdraw(u, entries, "shipping", request_id, OrderId("WD", d), "none")
    /\ Len(orders') = Len(orders) + 1

(* C29: the units a withdrawal order records for one inventory item, summed *)
(* over the request's entries for that item, are at most the quantity the   *)
(* item held before the request, and the item's quantity falls by that sum. *)
C29_WithdrawalWithinQuantity ==
    [][\A u \in Users, entries \in Entries :
          withdrawn(u, entries) =>
              /\ Len(orders'[Len(orders')].items) = Len(entries)
              /\ \A i \in DOMAIN inventory_items :
                    /\ requested(entries, i) <= quantity_held(inventory_items, i)
                    /\ quantity_held(inventory_items', i)
                         = quantity_held(inventory_items, i) - requested(entries, i)]_vars

(* C29: a withdrawal order of two lines records more units of alice's card *)
(* than her only item held, and the item is gone                           *)
C29_MoreWithdrawnThanHeld ==
    /\ \E o \in DOMAIN orders :
          /\ orders[o].facebook_details # <<>>
          /\ Len(orders[o].items) = 2
          /\ orders[o].items[1].quantity + orders[o].items[2].quantity > MaxQty
    /\ Len(inventory_items) = 1
    /\ ~inventory_items[1].live

-----------------------------------------------------------------------------
(* Credit redemption at checkout and the order it pays for *)

CheckoutRedeem ==
    \E d \in SixDigits \cup EightHex, failAt \in {"none", "order", "create", "clear"} :
        checkout(OrderId("ORD", d), "shipping", failAt) /\ BoundedCredit

NextRedeem ==
    \/ AddShopToCart
    \/ ApplyCredits
    \/ CheckoutRedeem

SpecRedeem == InitCredit /\ [][NextRedeem]_vars

(* The order ids of the redeem rows of the ledger *)
redeemed_order_ids(ledger) ==
    {ledger[r].idempotency_key.order_id :
        r \in {x \in DOMAIN ledger : /\ ledger[x].kind = "redeem"
                                     /\ ledger[x].idempotency_key.scope = "order"}}

(* The buyer's credit: the value of the verified holdings of CREDIT cards *)
credit_held(items) ==
    SumSeq([i \in DOMAIN items |->
               IF items[i].live /\ items[i].user_id = Buyer /\ is_credit(items[i].card_id)
               THEN items[i].quantity * price(items[i].card_id) ELSE 0])

(* The amount of the redeem rows of the ledger *)
credit_redeemed(ledger) ==
    SumSeq([r \in DOMAIN ledger |->
               IF ledger[r].kind = "redeem" THEN ledger[r].amount_vnd ELSE 0])

(* The order was paid with credit in part or in full (no coupon is applied) *)
paid_with_credit(o) ==
    orders[o].total_amount
      < SumSeq([k \in DOMAIN orders[o].items |->
                   price(orders[o].items[k].card_id) * orders[o].items[k].quantity])

(* C30: the redeem rows keyed order:<order_id> exist exactly for the orders *)
(* that were paid with credit, and a step writes ledger rows or changes the *)
(* buyer's credit holdings only when it creates the order, the holdings     *)
(* falling by the amount of the new redeem rows.                            *)
C30_RedemptionOnlyWithOrder ==
    /\ [](/\ redeemed_order_ids(credit_ledger) \subseteq order_ids
          /\ \A o \in DOMAIN orders :
                paid_with_credit(o) => orders[o].id \in redeemed_order_ids(credit_ledger))
    /\ [][(\/ credit_ledger' # credit_ledger
           \/ credit_held(inventory_items') # credit_held(inventory_items)) =>
             /\ Len(orders') = Len(orders) + 1
             /\ credit_held(inventory_items')
                  = credit_held(inventory_items)
                    - (credit_redeemed(credit_ledger') - credit_redeemed(credit_ledger))]_vars

(* C30: a checkout failed after its credit plan was redeemed: the ledger *)
(* holds redeem rows, the buyer's holdings are lower, and no order exists *)
C30_RedeemedWithoutOrder ==
    /\ orders = <<>>
    /\ credit_redeemed(credit_ledger) > 0
    /\ redeemed_order_ids(credit_ledger) # {}
    /\ credit_held(inventory_items) = MaxQty * 11000 - credit_redeemed(credit_ledger)
    /\ response = "checkout_error"

====
